---- MODULE Spec2Model ----
(***************************************************************************)
(* The rule-based interview engine of server/openai.ts: keyword            *)
(* extraction, question synthesis, follow-up generation, answer analysis   *)
(* and report aggregation.                                                 *)
(*                                                                         *)
(* A JavaScript string is a sequence of one-character strings, so that     *)
(* includes(), toLowerCase() and split(/\s+/) are computed character by    *)
(* character.  A JavaScript value that may be missing is a record with a   *)
(* tag.  A number is an integer, or NaN.                                   *)
(*                                                                         *)
(* Spec is the engine called function by function.  SpecRoutes is one      *)
(* interview served by the routes of server/routes and driven by the       *)
(* interview page: the page sends requests, the server serves the requests *)
(* in flight in any order, the LLM adapter fails or answers.               *)
(* SpecRequests is two users sending requests to the routes without the    *)
(* page.  SpecSpeech is the speaking of the current question by the page   *)
(* and the text-to-speech hook, SpecRecognition the events and timers of   *)
(* the speech-recognition hook.                                            *)
(***************************************************************************)
EXTENDS Integers, Sequences, FiniteSets, TLC

VARIABLES pc, op, args, outcome, caught, result, first, followUps,
          interview, questions, page, inflight, reportData, served, other,
          speech, recognition

\* the state of a call of the engine
callVars == <<pc, op, args, outcome, caught, result, first, followUps>>

\* the state of the routes and of the interview page
routeVars == <<interview, questions, page, inflight, reportData, served, other>>

\* the state of the text-to-speech of the interview page and of the
\* speech-recognition hook
hookVars == <<speech, recognition>>
vars == <<callVars, routeVars, hookVars>>

(***************************************************************************)
(* Bounds of the model.                                                    *)
(***************************************************************************)
\* longest interviewData built from the short answers
MaxItems == 2
\* largest numQuestions asked of the question synthesizer
MaxCount == 2
\* longest session of follow-up questions
MaxFollowUps == 3
\* most clicks of the candidate on the interview page
MaxEvents == 2
\* most requests sent to the routes without the page
MaxRequests == 2
\* the questions of the interview whose questions are spoken
MaxQuestions == 3
\* the half seconds the clock of the page runs
MaxTicks == 6
\* Math.random() is a multiple of 1/RandDen in [0, 1)
RandDen == 10

(***************************************************************************)
(* JavaScript values.                                                      *)
(***************************************************************************)
Str(s) == [tag |-> "string", s |-> s]

Undefined == [tag |-> "undefined", s |-> << >>]

Null == [tag |-> "null", s |-> << >>]

IsString(v) == v.tag = "string"

\* a value on which reading a property throws a TypeError
IsNullish(v) == v.tag \in {"undefined", "null"}

\* the value NaN of the number type (0/0, and every arithmetic on it)
NaN == -1000000

IsNaN(x) == x = NaN

Arr(items) == [tag |-> "array", items |-> items]

NullArr == [tag |-> "null", items |-> << >>]

Item(q, a, f) == [tag |-> "object", question |-> q, answer |-> a, feedback |-> f]

NullItem == [tag |-> "null", question |-> Undefined, answer |-> Undefined,
             feedback |-> Undefined]

(***************************************************************************)
(* String primitives.                                                      *)
(***************************************************************************)
UpperCase == <<"A","B","C","D","E","F","G","H","I","J","K","L","M",
               "N","O","P","Q","R","S","T","U","V","W","X","Y","Z">>

LowerCase == <<"a","b","c","d","e","f","g","h","i","j","k","l","m",
               "n","o","p","q","r","s","t","u","v","w","x","y","z">>

\* the lower-case letter of every upper-case letter
LowerMap ==
    [c \in {UpperCase[i] : i \in 1..Len(UpperCase)} |->
        LowerCase[CHOOSE i \in 1..Len(UpperCase) : UpperCase[i] = c]]

LowerChar(c) == IF c \in DOMAIN LowerMap THEN LowerMap[c] ELSE c

\* String.prototype.toLowerCase
toLowerCase(s) == [i \in 1..Len(s) |-> LowerChar(s[i])]

\* String.prototype.includes: pat occurs in text as a substring
includes(text, pat) ==
    \E i \in 1..(Len(text) - Len(pat) + 1) :
        \A j \in 1..Len(pat) : text[i + j - 1] = pat[j]

\* the characters the regular expression \s matches
IsSpace(c) == c \in {" ", "\n", "\t"}

\* text.split(/\s+/).length: one piece more than there are maximal runs of
\* whitespace, the empty pieces before a leading run and after a trailing run
\* included ("" gives [""], " a" gives ["", "a"])
splitLength(text) ==
    Cardinality({i \in 1..Len(text) :
        IsSpace(text[i]) /\ (i = 1 \/ ~IsSpace(text[i - 1]))}) + 1

\* the concatenation of a sequence of strings, by halves
RECURSIVE Concat(_)
Concat(ss) ==
    IF Len(ss) = 0 THEN << >>
    ELSE IF Len(ss) = 1 THEN ss[1]
    ELSE Concat(SubSeq(ss, 1, Len(ss) \div 2))
             \o Concat(SubSeq(ss, Len(ss) \div 2 + 1, Len(ss)))

Range(seq) == {seq[i] : i \in 1..Len(seq)}

(***************************************************************************)
(* extractKeywords                                                         *)
(***************************************************************************)
commonKeywords == <<
  <<"j","a","v","a","s","c","r","i","p","t">>, <<"t","y","p","e","s","c","r","i","p","t">>, <<"p","y","t","h","o","n">>,
  <<"j","a","v","a">>, <<"c","+","+">>, <<"r","e","a","c","t">>, <<"a","n","g","u","l","a","r">>,
  <<"v","u","e">>, <<"n","o","d","e">>, <<"e","x","p","r","e","s","s">>, <<"d","j","a","n","g","o">>,
  <<"f","l","a","s","k">>, <<"s","p","r","i","n","g">>, <<"d","o","c","k","e","r">>,
  <<"k","u","b","e","r","n","e","t","e","s">>, <<"a","w","s">>, <<"a","z","u","r","e">>, <<"g","c","p">>,
  <<"c","l","o","u","d">>, <<"d","a","t","a","b","a","s","e">>, <<"s","q","l">>, <<"n","o","s","q","l">>,
  <<"m","o","n","g","o","d","b">>, <<"l","e","a","d","e","r","s","h","i","p">>,
  <<"m","a","n","a","g","e","m","e","n","t">>, <<"c","o","m","m","u","n","i","c","a","t","i","o","n">>,
  <<"t","e","a","m","w","o","r","k">>, <<"p","r","o","b","l","e","m","-","s","o","l","v","i","n","g">>,
  <<"a","n","a","l","y","t","i","c","s">>, <<"d","a","t","a">>,
  <<"m","a","c","h","i","n","e"," ","l","e","a","r","n","i","n","g">>,
  <<"a","i">>, <<"a","g","i","l","e">>, <<"s","c","r","u","m">>, <<"d","e","v","o","p","s">>,
  <<"f","r","o","n","t","e","n","d">>, <<"b","a","c","k","e","n","d">>, <<"f","u","l","l","s","t","a","c","k">>,
  <<"m","o","b","i","l","e">>, <<"a","n","d","r","o","i","d">>, <<"i","o","s">>, <<"t","e","s","t","i","n","g">>,
  <<"q","a">>, <<"s","e","c","u","r","i","t","y">>, <<"n","e","t","w","o","r","k","i","n","g">>,
  <<"i","n","f","r","a","s","t","r","u","c","t","u","r","e">>,
  <<"a","r","c","h","i","t","e","c","t","u","r","e">>, <<"d","e","s","i","g","n">>,
  <<"u","s","e","r"," ","e","x","p","e","r","i","e","n","c","e">>, <<"u","i">>, <<"u","x">>,
  <<"p","r","o","d","u","c","t"," ","m","a","n","a","g","e","m","e","n","t">>,
  <<"p","r","o","j","e","c","t"," ","m","a","n","a","g","e","m","e","n","t">> >>

\* the terms pushed when fewer than MinFound vocabulary terms are found
genericKeywords == <<
  <<"e","x","p","e","r","i","e","n","c","e">>, <<"s","k","i","l","l","s">>,
  <<"p","r","o","j","e","c","t","s">>, <<"c","h","a","l","l","e","n","g","e","s">> >>

MinFound == 3

foundKeywords(description) ==
    SelectSeq(commonKeywords, LAMBDA keyword : includes(description, keyword))

\* as extractKeywords, the generic terms pushed also when exactly MinFound are found
extractKeywords_atMost(description) ==
    LET found == foundKeywords(description)
    IN  IF Len(found) <= MinFound THEN found \o genericKeywords ELSE found

\* as extractKeywords, the generic terms pushed only when fewer than two are found
extractKeywords_twoEnough(description) ==
    LET found == foundKeywords(description)
    IN  IF Len(found) < MinFound - 1 THEN found \o genericKeywords ELSE found

extractKeywords(description) ==
    LET found == foundKeywords(description)
    IN  IF Len(found) < MinFound THEN found \o genericKeywords ELSE found

(***************************************************************************)
(* generateInterviewQuestions                                              *)
(***************************************************************************)
\* `${v}` in a template literal
interpolate(v) ==
    IF IsString(v) THEN v.s
    ELSE IF v.tag = "null" THEN <<"n","u","l","l">>
    ELSE <<"u","n","d","e","f","i","n","e","d">>

getDefaultQuestions(jobTitle) == <<
  <<"W","h","a","t"," ","i","n","t","e","r","e","s","t","s"," ","y","o","u"," ","a","b","o","u",
    "t"," ","t","h","i","s"," ">> \o interpolate(jobTitle) \o <<" ","p","o","s","i","t","i","o","n","?">>,
  <<"W","h","a","t"," ","r","e","l","e","v","a","n","t"," ","e","x","p","e","r","i","e","n","c",
    "e"," ","d","o"," ","y","o","u"," ","h","a","v","e"," ","f","o","r"," ","t","h","i","s"," ">> \o interpolate(jobTitle)
      \o <<" ","r","o","l","e","?">>,
  <<"W","h","a","t"," ","d","o"," ","y","o","u"," ","c","o","n","s","i","d","e","r"," ","y","o",
    "u","r"," ","s","t","r","o","n","g","e","s","t"," ","s","k","i","l","l","s"," ","f","o","r",
    " ","t","h","i","s"," ">> \o interpolate(jobTitle)
      \o <<" ","p","o","s","i","t","i","o","n","?">>,
  <<"D","e","s","c","r","i","b","e"," ","a"," ","c","h","a","l","l","e","n","g","i","n","g"," ",
    "p","r","o","j","e","c","t"," ","y","o","u","'","v","e"," ","w","o","r","k","e","d"," ","o",
    "n"," ","t","h","a","t","'","s"," ","r","e","l","e","v","a","n","t"," ","t","o"," ","t","h",
    "i","s"," ","r","o","l","e",".">>,
  <<"H","o","w"," ","d","o"," ","y","o","u"," ","s","t","a","y"," ","u","p","d","a","t","e","d",
    " ","w","i","t","h"," ","t","h","e"," ","l","a","t","e","s","t"," ","d","e","v","e","l","o",
    "p","m","e","n","t","s"," ","i","n"," ","y","o","u","r"," ","f","i","e","l","d","?">>,
  <<"T","e","l","l"," ","m","e"," ","a","b","o","u","t"," ","a"," ","t","i","m","e"," ","w","h",
    "e","n"," ","y","o","u"," ","h","a","d"," ","t","o"," ","s","o","l","v","e"," ","a"," ","c",
    "o","m","p","l","e","x"," ","p","r","o","b","l","e","m",".">>,
  <<"H","o","w"," ","d","o"," ","y","o","u"," ","h","a","n","d","l","e"," ","w","o","r","k","i",
    "n","g"," ","u","n","d","e","r"," ","p","r","e","s","s","u","r","e"," ","o","r"," ","t","i",
    "g","h","t"," ","d","e","a","d","l","i","n","e","s","?">>,
  <<"G","i","v","e"," ","a","n"," ","e","x","a","m","p","l","e"," ","o","f"," ","a"," ","s","i",
    "t","u","a","t","i","o","n"," ","w","h","e","r","e"," ","y","o","u"," ","h","a","d"," ","t",
    "o"," ","c","o","l","l","a","b","o","r","a","t","e"," ","w","i","t","h"," ","a"," ","d","i",
    "f","f","i","c","u","l","t"," ","t","e","a","m"," ","m","e","m","b","e","r",".">>,
  <<"W","h","a","t"," ","a","r","e"," ","y","o","u","r"," ","c","a","r","e","e","r"," ","g","o",
    "a","l","s"," ","a","n","d"," ","h","o","w"," ","d","o","e","s"," ","t","h","i","s"," ","p",
    "o","s","i","t","i","o","n"," ","h","e","l","p"," ","y","o","u"," ","a","c","h","i","e","v",
    "e"," ","t","h","e","m","?">>,
  <<"D","o"," ","y","o","u"," ","h","a","v","e"," ","a","n","y"," ","q","u","e","s","t","i","o",
    "n","s"," ","a","b","o","u","t"," ","t","h","e"," ","r","o","l","e"," ","o","r"," ","t","h",
    "e"," ","c","o","m","p","a","n","y","?">> >>

technicalQuestionTemplates(skill) == <<
  <<"T","e","l","l"," ","m","e"," ","a","b","o","u","t"," ","y","o","u","r"," ","e","x","p","e",
    "r","i","e","n","c","e"," ","w","i","t","h"," ">> \o skill \o <<".">>,
  <<"H","o","w"," ","h","a","v","e"," ","y","o","u"," ","u","s","e","d"," ">> \o skill \o <<" ","i","n"," ","y","o","u","r"," ","p","r","e","v","i","o","u","s"," ","r","o","l","e","s",
                                        "?">>,
  <<"D","e","s","c","r","i","b","e"," ","a"," ","c","h","a","l","l","e","n","g","i","n","g"," ",
    "p","r","o","j","e","c","t"," ","w","h","e","r","e"," ","y","o","u"," ","u","t","i","l","i",
    "z","e","d"," ">> \o skill \o <<".">>,
  <<"W","h","a","t"," ","d","o"," ","y","o","u"," ","c","o","n","s","i","d","e","r"," ","b","e",
    "s","t"," ","p","r","a","c","t","i","c","e","s"," ","w","h","e","n"," ","w","o","r","k","i",
    "n","g"," ","w","i","t","h"," ">> \o skill \o <<"?">>,
  <<"H","o","w"," ","d","o"," ","y","o","u"," ","s","t","a","y"," ","u","p","d","a","t","e","d",
    " ","w","i","t","h"," ","t","h","e"," ","l","a","t","e","s","t"," ","d","e","v","e","l","o",
    "p","m","e","n","t","s"," ","i","n"," ">> \o skill \o <<"?">> >>

behavioralQuestionTemplates == <<
  <<"D","e","s","c","r","i","b","e"," ","a"," ","s","i","t","u","a","t","i","o","n"," ","w","h",
    "e","r","e"," ","y","o","u"," ","h","a","d"," ","t","o"," ","m","e","e","t"," ","a"," ","t",
    "i","g","h","t"," ","d","e","a","d","l","i","n","e",".">>,
  <<"T","e","l","l"," ","m","e"," ","a","b","o","u","t"," ","a"," ","t","i","m","e"," ","w","h",
    "e","n"," ","y","o","u"," ","h","a","d"," ","t","o"," ","w","o","r","k"," ","w","i","t","h",
    " ","a"," ","d","i","f","f","i","c","u","l","t"," ","t","e","a","m"," ","m","e","m","b","e",
    "r",".">>,
  <<"G","i","v","e"," ","a","n"," ","e","x","a","m","p","l","e"," ","o","f"," ","a"," ","p","r",
    "o","j","e","c","t"," ","t","h","a","t"," ","d","i","d","n","'","t"," ","g","o"," ","a","s",
    " ","p","l","a","n","n","e","d"," ","a","n","d"," ","h","o","w"," ","y","o","u"," ","h","a",
    "n","d","l","e","d"," ","i","t",".">>,
  <<"D","e","s","c","r","i","b","e"," ","a"," ","s","i","t","u","a","t","i","o","n"," ","w","h",
    "e","r","e"," ","y","o","u"," ","h","a","d"," ","t","o"," ","m","a","k","e"," ","a"," ","d",
    "i","f","f","i","c","u","l","t"," ","d","e","c","i","s","i","o","n",".">>,
  <<"T","e","l","l"," ","m","e"," ","a","b","o","u","t"," ","a"," ","t","i","m","e"," ","w","h",
    "e","n"," ","y","o","u"," ","w","e","n","t"," ","a","b","o","v","e"," ","a","n","d"," ","b",
    "e","y","o","n","d"," ","f","o","r"," ","a"," ","p","r","o","j","e","c","t",".">>,
  <<"H","o","w"," ","d","o"," ","y","o","u"," ","p","r","i","o","r","i","t","i","z","e"," ","t",
    "a","s","k","s"," ","w","h","e","n"," ","w","o","r","k","i","n","g"," ","o","n"," ","m","u",
    "l","t","i","p","l","e"," ","p","r","o","j","e","c","t","s","?">>,
  <<"D","e","s","c","r","i","b","e"," ","a"," ","s","i","t","u","a","t","i","o","n"," ","w","h",
    "e","r","e"," ","y","o","u"," ","h","a","d"," ","t","o"," ","l","e","a","r","n"," ","a"," ",
    "n","e","w"," ","s","k","i","l","l"," ","q","u","i","c","k","l","y",".">>,
  <<"T","e","l","l"," ","m","e"," ","a","b","o","u","t"," ","a"," ","t","i","m","e"," ","w","h",
    "e","n"," ","y","o","u"," ","r","e","c","e","i","v","e","d"," ","c","o","n","s","t","r","u",
    "c","t","i","v","e"," ","c","r","i","t","i","c","i","s","m",".">>,
  <<"H","o","w"," ","d","o"," ","y","o","u"," ","h","a","n","d","l","e"," ","d","i","s","a","g",
    "r","e","e","m","e","n","t","s"," ","w","i","t","h"," ","t","e","a","m"," ","m","e","m","b",
    "e","r","s","?">>,
  <<"G","i","v","e"," ","a","n"," ","e","x","a","m","p","l","e"," ","o","f"," ","h","o","w"," ",
    "y","o","u","'","v","e"," ","c","o","n","t","r","i","b","u","t","e","d"," ","t","o"," ","i",
    "m","p","r","o","v","i","n","g"," ","a"," ","p","r","o","c","e","s","s",".">> >>

roleSpecificQuestions(jobTitle) == <<
  <<"W","h","a","t"," ","i","n","t","e","r","e","s","t","s"," ","y","o","u"," ","a","b","o","u",
    "t"," ","t","h","i","s"," ">> \o interpolate(jobTitle) \o <<" ","p","o","s","i","t","i","o","n","?">>,
  <<"W","h","a","t"," ","d","o"," ","y","o","u"," ","t","h","i","n","k"," ","a","r","e"," ","t",
    "h","e"," ","m","o","s","t"," ","i","m","p","o","r","t","a","n","t"," ","s","k","i","l","l",
    "s"," ","f","o","r"," ","a"," ">> \o interpolate(jobTitle)
      \o <<"?">>,
  <<"W","h","e","r","e"," ","d","o"," ","y","o","u"," ","s","e","e"," ","t","h","e"," ","c","h",
    "a","l","l","e","n","g","e","s"," ","i","n"," ","t","h","i","s"," ">> \o interpolate(jobTitle) \o <<" ","r","o","l","e","?">>,
  <<"W","h","a","t"," ","a","c","h","i","e","v","e","m","e","n","t","s"," ","a","r","e"," ","y",
    "o","u"," ","m","o","s","t"," ","p","r","o","u","d"," ","o","f"," ","i","n"," ","y","o","u",
    "r"," ","c","a","r","e","e","r"," ","a","s"," ","a"," ">>
      \o interpolate(jobTitle) \o <<"?">>,
  <<"H","o","w"," ","w","o","u","l","d"," ","y","o","u"," ","a","p","p","r","o","a","c","h"," ",
    "t","h","e"," ","f","i","r","s","t"," ","9","0"," ","d","a","y","s"," ","i","n"," ","t","h",
    "i","s"," ">> \o interpolate(jobTitle)
      \o <<" ","p","o","s","i","t","i","o","n","?">> >>

\* keywords.flatMap(keyword => technicalQuestionTemplates.map(t => t(keyword)))
technicalQuestions(keywords) ==
    Concat([i \in 1..Len(keywords) |-> technicalQuestionTemplates(keywords[i])])

allQuestions(jobTitle, keywords) ==
    technicalQuestions(keywords) \o behavioralQuestionTemplates
        \o roleSpecificQuestions(jobTitle)

Min(a, b) == IF a < b THEN a ELSE b

Max(a, b) == IF a > b THEN a ELSE b

\* the rotations of 1..n and their reversals, cut to their first m places
Rotations(n, m) ==
    {[i \in 1..m |-> ((r + d * i) % n) + 1] : r \in 0..(n - 1), d \in {1, n - 1}}

\* as shuffledSlices, an element drawn afresh for every place
shuffledSlices_repeating(n, count) ==
    IF count <= MaxCount
    THEN [1..Min(count, n) -> 1..n]
    ELSE Rotations(n, Min(count, n))

\* what sort(() => 0.5 - Math.random()) followed by slice(0, count) can leave,
\* as indices into the array: the first count places of an arrangement of its n
\* elements.  Every arrangement is drawn for count <= MaxCount, the rotations
\* and their reversals beyond
shuffledSlices(n, count) ==
    IF count <= MaxCount
    THEN {p \in [1..Min(count, n) -> 1..n] :
             \A i, j \in 1..Min(count, n) : i # j => p[i] # p[j]}
    ELSE Rotations(n, Min(count, n))

\* the results generateQuestionsFromKeywords can return, one per shuffle
generateQuestionsFromKeywords(jobTitle, keywords, count) ==
    LET pool == allQuestions(jobTitle, keywords)
    IN  {[i \in 1..Len(p) |-> pool[p[i]]] : p \in shuffledSlices(Len(pool), count)}

\* numQuestions: number = 10
DefaultNumQuestions == 10

\* jobDescription.toLowerCase() throws on a value that is no string
generateInterviewQuestionsCatches(jobDescription) == ~IsString(jobDescription)

generateInterviewQuestions(jobTitle, jobDescription, numQuestions) ==
    IF generateInterviewQuestionsCatches(jobDescription)
    THEN {getDefaultQuestions(jobTitle)}
    ELSE generateQuestionsFromKeywords(
             jobTitle, extractKeywords(toLowerCase(jobDescription.s)), numQuestions)

(***************************************************************************)
(* generateNextQuestion                                                    *)
(***************************************************************************)
KeywordSlot == <<"{","k","e","y","w","o","r","d","}">>

\* the first position at which pat occurs in text, 0 if none
indexOf(text, pat) ==
    LET hits == {i \in 1..(Len(text) - Len(pat) + 1) :
                    \A j \in 1..Len(pat) : text[i + j - 1] = pat[j]}
    IN  IF hits = {} THEN 0 ELSE CHOOSE i \in hits : \A k \in hits : i <= k

\* String.prototype.replace with a string pattern: the first occurrence only
replace(text, pat, by) ==
    LET at == indexOf(text, pat)
    IN  IF at = 0 THEN text
        ELSE SubSeq(text, 1, at - 1) \o by \o SubSeq(text, at + Len(pat), Len(text))

positiveFeedbackTemplates == <<
  <<"T","h","a","n","k"," ","y","o","u"," ","f","o","r"," ","s","h","a","r","i","n","g"," ","y",
    "o","u","r"," ","e","x","p","e","r","i","e","n","c","e"," ","w","i","t","h"," ","{","k","e",
    "y","w","o","r","d","}","."," ","T","h","a","t","'","s"," ","v","a","l","u","a","b","l","e",
    " ","i","n","f","o","r","m","a","t","i","o","n",".">>,
  <<"Y","o","u","r"," ","k","n","o","w","l","e","d","g","e"," ","o","f"," ","{","k","e","y","w",
    "o","r","d","}"," ","s","h","o","w","s"," ","t","h","r","o","u","g","h"," ","i","n"," ","y",
    "o","u","r"," ","a","n","s","w","e","r","."," ","T","h","a","t","'","s"," ","g","r","e","a",
    "t"," ","t","o"," ","h","e","a","r",".">>,
  <<"I"," ","a","p","p","r","e","c","i","a","t","e"," ","y","o","u","r"," ","d","e","t","a","i",
    "l","e","d"," ","e","x","p","l","a","n","a","t","i","o","n"," ","a","b","o","u","t"," ","{",
    "k","e","y","w","o","r","d","}",".">>,
  <<"Y","o","u","r"," ","e","x","p","e","r","i","e","n","c","e"," ","w","i","t","h"," ","{","k",
    "e","y","w","o","r","d","}"," ","s","e","e","m","s"," ","r","e","l","e","v","a","n","t"," ",
    "t","o"," ","t","h","i","s"," ","p","o","s","i","t","i","o","n",".">> >>

generalFeedbackTemplates == <<
  <<"T","h","a","n","k"," ","y","o","u"," ","f","o","r"," ","y","o","u","r"," ","a","n","s","w",
    "e","r",".">>,
  <<"I"," ","a","p","p","r","e","c","i","a","t","e"," ","y","o","u","r"," ","r","e","s","p","o",
    "n","s","e",".">>,
  <<"T","h","a","t","'","s"," ","h","e","l","p","f","u","l"," ","i","n","f","o","r","m","a","t",
    "i","o","n",".">>,
  <<"T","h","a","n","k"," ","y","o","u"," ","f","o","r"," ","s","h","a","r","i","n","g"," ","y",
    "o","u","r"," ","p","e","r","s","p","e","c","t","i","v","e",".">> >>

\* the feedbacks generateFeedback can return, one per pair of random indices
generateFeedback(answer, mentionedKeywords) ==
    IF Len(mentionedKeywords) > 0
    THEN {replace(positiveFeedbackTemplates[t], KeywordSlot, mentionedKeywords[k]) :
             k \in 1..Len(mentionedKeywords), t \in 1..Len(positiveFeedbackTemplates)}
    ELSE Range(generalFeedbackTemplates)

followUpTemplates == <<
  <<"C","o","u","l","d"," ","y","o","u"," ","t","e","l","l"," ","m","e"," ","m","o","r","e"," ",
    "a","b","o","u","t"," ","y","o","u","r"," ","e","x","p","e","r","i","e","n","c","e"," ","w",
    "i","t","h"," ","{","k","e","y","w","o","r","d","}","?">>,
  <<"H","o","w"," ","h","a","v","e"," ","y","o","u"," ","a","p","p","l","i","e","d"," ","{","k",
    "e","y","w","o","r","d","}"," ","i","n"," ","y","o","u","r"," ","p","r","e","v","i","o","u",
    "s"," ","r","o","l","e","s","?">>,
  <<"W","h","a","t"," ","c","h","a","l","l","e","n","g","e","s"," ","h","a","v","e"," ","y","o",
    "u"," ","f","a","c","e","d"," ","w","h","e","n"," ","w","o","r","k","i","n","g"," ","w","i",
    "t","h"," ","{","k","e","y","w","o","r","d","}","?">>,
  <<"C","a","n"," ","y","o","u"," ","g","i","v","e"," ","a"," ","s","p","e","c","i","f","i","c",
    " ","e","x","a","m","p","l","e"," ","o","f"," ","h","o","w"," ","y","o","u","'","v","e"," ",
    "u","s","e","d"," ","{","k","e","y","w","o","r","d","}"," ","t","o"," ","s","o","l","v","e",
    " ","a"," ","p","r","o","b","l","e","m","?">>,
  <<"W","h","a","t"," ","d","o"," ","y","o","u"," ","c","o","n","s","i","d","e","r"," ","t","o",
    " ","b","e"," ","t","h","e"," ","m","o","s","t"," ","i","m","p","o","r","t","a","n","t"," ",
    "a","s","p","e","c","t","s"," ","o","f"," ","{","k","e","y","w","o","r","d","}","?">> >>

generalFollowUpTemplates == <<
  <<"C","o","u","l","d"," ","y","o","u"," ","e","l","a","b","o","r","a","t","e"," ","o","n"," ",
    "y","o","u","r"," ","l","a","s","t"," ","p","o","i","n","t","?">>,
  <<"H","o","w"," ","w","o","u","l","d"," ","y","o","u"," ","a","p","p","l","y"," ","t","h","a",
    "t"," ","e","x","p","e","r","i","e","n","c","e"," ","t","o"," ","t","h","i","s"," ","r","o",
    "l","e","?">>,
  <<"W","h","a","t"," ","s","p","e","c","i","f","i","c"," ","s","k","i","l","l","s"," ","d","i",
    "d"," ","y","o","u"," ","d","e","v","e","l","o","p"," ","f","r","o","m"," ","t","h","a","t",
    " ","e","x","p","e","r","i","e","n","c","e","?">>,
  <<"H","o","w"," ","d","o"," ","y","o","u"," ","m","e","a","s","u","r","e"," ","s","u","c","c",
    "e","s","s"," ","i","n"," ","t","h","a","t"," ","a","r","e","a","?">>,
  <<"W","h","a","t"," ","d","i","d"," ","y","o","u"," ","l","e","a","r","n"," ","f","r","o","m",
    " ","t","h","a","t"," ","e","x","p","e","r","i","e","n","c","e"," ","t","h","a","t"," ","w",
    "o","u","l","d"," ","b","e"," ","v","a","l","u","a","b","l","e"," ","i","n"," ","t","h","i",
    "s"," ","p","o","s","i","t","i","o","n","?">> >>

\* as unusedKeywords, the last of the previous questions alone looked at
unusedKeywords_lastOnly(previousQuestions, jobKeywords) ==
    SelectSeq(jobKeywords,
        LAMBDA keyword :
            ~(/\ Len(previousQuestions) > 0
              /\ includes(toLowerCase(previousQuestions[Len(previousQuestions)]), keyword)))

\* jobKeywords.filter(k => !previousQuestions.some(q => q.toLowerCase().includes(k)))
unusedKeywords(previousQuestions, jobKeywords) ==
    SelectSeq(jobKeywords,
        LAMBDA keyword :
            ~\E i \in 1..Len(previousQuestions) :
                includes(toLowerCase(previousQuestions[i]), keyword))

\* as generateFollowUpQuestion, the keyword drawn from all the job keywords
generateFollowUpQuestion_anyKeyword(currentQuestion, answer, previousQuestions, jobKeywords) ==
    LET unused == unusedKeywords(previousQuestions, jobKeywords)
    IN  IF Len(unused) > 0
        THEN {replace(followUpTemplates[t], KeywordSlot, jobKeywords[k]) :
                 k \in 1..Len(jobKeywords), t \in 1..Len(followUpTemplates)}
        ELSE Range(generalFollowUpTemplates)

\* the questions generateFollowUpQuestion can return, one per pair of random indices
generateFollowUpQuestion(currentQuestion, answer, previousQuestions, jobKeywords) ==
    LET unused == unusedKeywords(previousQuestions, jobKeywords)
    IN  IF Len(unused) > 0
        THEN {replace(followUpTemplates[t], KeywordSlot, unused[k]) :
                 k \in 1..Len(unused), t \in 1..Len(followUpTemplates)}
        ELSE Range(generalFollowUpTemplates)

\* the default parameter: previousQuestions = [] when the argument is undefined
previousQuestionsOrDefault(previousQuestions) ==
    IF previousQuestions.tag = "undefined" THEN << >> ELSE previousQuestions.items

\* a TypeError inside the try block: toLowerCase of a value that is no string,
\* or some() of null
generateNextQuestionCatches(jobDescription, candidateAnswer, previousQuestions) ==
    \/ ~IsString(jobDescription)
    \/ ~IsString(candidateAnswer)
    \/ previousQuestions.tag = "null"

nextQuestionFallback ==
    [feedback |-> <<"T","h","a","n","k"," ","y","o","u"," ","f","o","r"," ","s","h","a","r","i","n","g"," ","t",
                    "h","a","t"," ","i","n","f","o","r","m","a","t","i","o","n","."," ","T","h",
                    "a","t","'","s"," ","h","e","l","p","f","u","l"," ","c","o","n","t","e","x",
                    "t",".">>,
     question |->
       <<"C","o","u","l","d"," ","y","o","u"," ","t","e","l","l"," ","m","e"," ","m","o","r","e"," ",
         "a","b","o","u","t"," ","y","o","u","r"," ","s","p","e","c","i","f","i","c"," ","e",
         "x","p","e","r","i","e","n","c","e"," ","r","e","l","a","t","e","d"," ","t","o"," ",
         "t","h","i","s"," ","r","o","l","e","?">>]

\* as generateNextQuestion, the job keywords not filtered by the answer
generateNextQuestion_unfiltered(jobDescription, currentQuestion, candidateAnswer, previousQuestions) ==
    IF generateNextQuestionCatches(jobDescription, candidateAnswer, previousQuestions)
    THEN {nextQuestionFallback}
    ELSE LET jobKeywords == extractKeywords(toLowerCase(jobDescription.s))
         IN  {[question |-> q, feedback |-> f] :
                 q \in generateFollowUpQuestion(currentQuestion, candidateAnswer.s,
                          previousQuestionsOrDefault(previousQuestions), jobKeywords),
                 f \in generateFeedback(candidateAnswer.s, jobKeywords)}

\* the results generateNextQuestion can return
generateNextQuestion(jobDescription, currentQuestion, candidateAnswer, previousQuestions) ==
    IF generateNextQuestionCatches(jobDescription, candidateAnswer, previousQuestions)
    THEN {nextQuestionFallback}
    ELSE LET jobKeywords == extractKeywords(toLowerCase(jobDescription.s))
             lowered == toLowerCase(candidateAnswer.s)
             answerKeywords ==
                 SelectSeq(jobKeywords, LAMBDA keyword : includes(lowered, keyword))
         IN  {[question |-> q, feedback |-> f] :
                 q \in generateFollowUpQuestion(currentQuestion, candidateAnswer.s,
                          previousQuestionsOrDefault(previousQuestions), jobKeywords),
                 f \in generateFeedback(candidateAnswer.s, answerKeywords)}

(***************************************************************************)
(* analyzeAnswers                                                          *)
(***************************************************************************)
BaseScore == 70

ManyKeywords == 3

SomeKeywords == 1

ManyKeywordsBonus == 15

SomeKeywordsBonus == 10

OneKeywordBonus == 5

LongAnswer == 150

FullAnswer == 100

TinyAnswer == 20

ShortAnswer == 50

LongBonus == 10

FullBonus == 5

TinyPenalty == 15

ShortPenalty == 5

MaxScore == 100

\* jobKeywords.filter(keyword => answer.includes(keyword)).length
keywordMentions(answer, jobKeywords) ==
    Len(SelectSeq(jobKeywords, LAMBDA keyword : includes(answer, keyword)))

\* as keywordBonus, the bands closed below
keywordBonus_inclusive(mentions) ==
    IF mentions >= ManyKeywords THEN ManyKeywordsBonus
    ELSE IF mentions >= SomeKeywords THEN SomeKeywordsBonus
    ELSE IF mentions > 0 THEN OneKeywordBonus
    ELSE 0

keywordBonus(mentions) ==
    IF mentions > ManyKeywords THEN ManyKeywordsBonus
    ELSE IF mentions > SomeKeywords THEN SomeKeywordsBonus
    ELSE IF mentions > 0 THEN OneKeywordBonus
    ELSE 0

\* as lengthBonus, the bonuses and penalties doubled
lengthBonus_doubled(wordCount) ==
    IF wordCount > LongAnswer THEN 2 * LongBonus
    ELSE IF wordCount > FullAnswer THEN 2 * FullBonus
    ELSE IF wordCount < TinyAnswer THEN 0 - 2 * TinyPenalty
    ELSE IF wordCount < ShortAnswer THEN 0 - 2 * ShortPenalty
    ELSE 0

lengthBonus(wordCount) ==
    IF wordCount > LongAnswer THEN LongBonus
    ELSE IF wordCount > FullAnswer THEN FullBonus
    ELSE IF wordCount < TinyAnswer THEN 0 - TinyPenalty
    ELSE IF wordCount < ShortAnswer THEN 0 - ShortPenalty
    ELSE 0

\* Math.max(0, Math.min(100, score))
capScore(score) == Max(0, Min(MaxScore, score))

\* as answerScore, the bonus given per keyword mentioned and the score not capped
answerScore_perMention(text, jobKeywords) ==
    LET answer == toLowerCase(text)
    IN  BaseScore + ManyKeywordsBonus * keywordMentions(answer, jobKeywords)
            + lengthBonus(splitLength(answer))

answerScore(text, jobKeywords) ==
    LET answer == toLowerCase(text)
    IN  capScore(BaseScore + keywordBonus(keywordMentions(answer, jobKeywords))
                     + lengthBonus(splitLength(answer)))

ExcellentScore == 90

StrongScore == 80

GoodScore == 70

AdequateScore == 60

\* as scoreFeedback, a score on a threshold falling into the tier below
scoreFeedback_strict(score) ==
    IF score > ExcellentScore
    THEN <<"E","x","c","e","l","l","e","n","t"," ","a","n","s","w","e","r"," ","w","i","t","h"," ","s",
           "p","e","c","i","f","i","c"," ","d","e","t","a","i","l","s"," ","a","n","d"," ","r",
           "e","l","e","v","a","n","t"," ","s","k","i","l","l","s",".">>
    ELSE IF score > StrongScore
    THEN <<"S","t","r","o","n","g"," ","a","n","s","w","e","r"," ","d","e","m","o","n","s","t","r","a",
           "t","i","n","g"," ","g","o","o","d"," ","k","n","o","w","l","e","d","g","e"," ","a",
           "n","d"," ","e","x","p","e","r","i","e","n","c","e",".">>
    ELSE IF score > GoodScore
    THEN <<"G","o","o","d"," ","a","n","s","w","e","r"," ","w","i","t","h"," ","s","o","m","e"," ","r",
           "e","l","e","v","a","n","t"," ","p","o","i","n","t","s",","," ","b","u","t"," ","c",
           "o","u","l","d"," ","i","n","c","l","u","d","e"," ","m","o","r","e"," ","s","p","e",
           "c","i","f","i","c"," ","e","x","a","m","p","l","e","s",".">>
    ELSE IF score > AdequateScore
    THEN <<"A","d","e","q","u","a","t","e"," ","a","n","s","w","e","r",","," ","b","u","t"," ","l","a",
           "c","k","s"," ","d","e","p","t","h"," ","a","n","d"," ","c","o","n","c","r","e","t",
           "e"," ","e","x","a","m","p","l","e","s",".">>
    ELSE <<"A","n","s","w","e","r"," ","n","e","e","d","s"," ","i","m","p","r","o","v","e","m","e","n",
           "t"," ","-"," ","p","r","o","v","i","d","e"," ","m","o","r","e"," ","d","e","t","a",
           "i","l","s"," ","a","n","d"," ","s","p","e","c","i","f","i","c"," ","e","x","a","m",
           "p","l","e","s",".">>

scoreFeedback(score) ==
    IF score >= ExcellentScore
    THEN <<"E","x","c","e","l","l","e","n","t"," ","a","n","s","w","e","r"," ","w","i","t","h"," ","s",
           "p","e","c","i","f","i","c"," ","d","e","t","a","i","l","s"," ","a","n","d"," ","r",
           "e","l","e","v","a","n","t"," ","s","k","i","l","l","s",".">>
    ELSE IF score >= StrongScore
    THEN <<"S","t","r","o","n","g"," ","a","n","s","w","e","r"," ","d","e","m","o","n","s","t","r","a",
           "t","i","n","g"," ","g","o","o","d"," ","k","n","o","w","l","e","d","g","e"," ","a",
           "n","d"," ","e","x","p","e","r","i","e","n","c","e",".">>
    ELSE IF score >= GoodScore
    THEN <<"G","o","o","d"," ","a","n","s","w","e","r"," ","w","i","t","h"," ","s","o","m","e"," ","r",
           "e","l","e","v","a","n","t"," ","p","o","i","n","t","s",","," ","b","u","t"," ","c",
           "o","u","l","d"," ","i","n","c","l","u","d","e"," ","m","o","r","e"," ","s","p","e",
           "c","i","f","i","c"," ","e","x","a","m","p","l","e","s",".">>
    ELSE IF score >= AdequateScore
    THEN <<"A","d","e","q","u","a","t","e"," ","a","n","s","w","e","r",","," ","b","u","t"," ","l","a",
           "c","k","s"," ","d","e","p","t","h"," ","a","n","d"," ","c","o","n","c","r","e","t",
           "e"," ","e","x","a","m","p","l","e","s",".">>
    ELSE <<"A","n","s","w","e","r"," ","n","e","e","d","s"," ","i","m","p","r","o","v","e","m","e","n",
           "t"," ","-"," ","p","r","o","v","i","d","e"," ","m","o","r","e"," ","d","e","t","a",
           "i","l","s"," ","a","n","d"," ","s","p","e","c","i","f","i","c"," ","e","x","a","m",
           "p","l","e","s",".">>

\* item.answer.toLowerCase() throws when the item is null or undefined, or its
\* answer is no string; interviewData.map throws when interviewData is no array
analyzeAnswersThrows(interviewData) ==
    \/ interviewData.tag # "array"
    \/ \E i \in 1..Len(interviewData.items) :
          \/ interviewData.items[i].tag # "object"
          \/ ~IsString(interviewData.items[i].answer)

\* as analyzeAnswers, an item that has feedback already keeps the default score
analyzeAnswers_keepsScored(interviewData, jobKeywords) ==
    [i \in 1..Len(interviewData.items) |->
        LET item == interviewData.items[i]
            score == IF IsString(item.feedback) /\ item.feedback.s # << >>
                     THEN BaseScore
                     ELSE answerScore(item.answer.s, jobKeywords)
        IN  [question |-> item.question, score |-> score,
             feedback |-> Str(scoreFeedback(score))]]

analyzeAnswers(interviewData, jobKeywords) ==
    [i \in 1..Len(interviewData.items) |->
        LET item == interviewData.items[i]
            score == answerScore(item.answer.s, jobKeywords)
        IN  [question |-> item.question, score |-> score,
             feedback |-> Str(scoreFeedback(score))]]

(***************************************************************************)
(* calculateScores                                                         *)
(***************************************************************************)
RECURSIVE sumScores(_)
sumScores(questionAnalysis) ==
    IF questionAnalysis = << >> THEN 0
    ELSE Head(questionAnalysis).score + sumScores(Tail(questionAnalysis))

\* as roundedMean, the sum not divided by the number of questions
roundedMean_undivided(sum, n) ==
    IF n = 0 THEN NaN ELSE sum

\* Math.round(sum / n) for sum >= 0: halves round up; 0 / 0 is NaN
roundedMean(sum, n) ==
    IF n = 0 THEN NaN ELSE (2 * sum + n) \div (2 * n)

\* as variedScore, without Math.min(100, ...)
variedScore_uncapped(overall, k, tenths) ==
    IF IsNaN(overall) THEN NaN
    ELSE (2 * overall * (2 * k + tenths * RandDen) + 10 * RandDen) \div (20 * RandDen)

\* Math.min(100, Math.round(overall * (random * 0.2 + tenths / 10))) with
\* random = k / RandDen, in exact arithmetic; NaN stays NaN
variedScore(overall, k, tenths) ==
    IF IsNaN(overall) THEN NaN
    ELSE Min(MaxScore,
             (2 * overall * (2 * k + tenths * RandDen) + 10 * RandDen)
                 \div (20 * RandDen))

TechnicalTenths == 9

CommunicationTenths == 9

ProblemSolvingTenths == 8

overallOf(questionAnalysis) ==
    roundedMean(sumScores(questionAnalysis), Len(questionAnalysis))

calculateScores(questionAnalysis, jobKeywords, random) ==
    LET overallScore == overallOf(questionAnalysis)
    IN  [overall |-> overallScore,
         technical |-> variedScore(overallScore, random[1], TechnicalTenths),
         communication |-> variedScore(overallScore, random[2], CommunicationTenths),
         problemSolving |-> variedScore(overallScore, random[3], ProblemSolvingTenths)]

\* a comparison with NaN is false
AtLeast(x, y) == ~IsNaN(x) /\ x >= y

Below(x, y) == ~IsNaN(x) /\ x < y

(***************************************************************************)
(* identifyStrengths, identifyImprovements, generateRecommendations        *)
(***************************************************************************)
HighScore == 80

LowScore == 65

CategoryScore == 75

MinListed == 3

\* as padded, with an if for the while: one element pushed at most
padded_once(list, pool) ==
    IF Len(list) < MinListed
    THEN list \o SubSeq(pool, 1, Min(1, Len(pool)))
    ELSE list

\* while (list.length < 3) { next = pool.shift(); if (next) push else break }
padded(list, pool) ==
    IF Len(list) < MinListed
    THEN list \o SubSeq(pool, 1, Min(MinListed - Len(list), Len(pool)))
    ELSE list

When(cond, text) == IF cond THEN <<text>> ELSE << >>

genericStrengths == <<
  <<"S","h","o","w","e","d"," ","e","n","t","h","u","s","i","a","s","m"," ","f","o","r"," ","t",
    "h","e"," ","r","o","l","e">>,
  <<"A","r","t","i","c","u","l","a","t","e","d"," ","p","a","s","t"," ","e","x","p","e","r","i",
    "e","n","c","e","s"," ","w","e","l","l">>,
  <<"D","e","m","o","n","s","t","r","a","t","e","d"," ","a"," ","p","o","s","i","t","i","v","e",
    " ","a","t","t","i","t","u","d","e">>,
  <<"P","r","e","s","e","n","t","e","d"," ","p","r","o","f","e","s","s","i","o","n","a","l"," ",
    "d","e","m","e","a","n","o","r"," ","d","u","r","i","n","g"," ","t","h","e"," ","i","n","t",
    "e","r","v","i","e","w">> >>

\* as identifyStrengths, a category a strength from the high score on
identifyStrengths_fromHighScore(questionAnalysis, scores) ==
    padded(
        When(\E i \in 1..Len(questionAnalysis) : questionAnalysis[i].score >= HighScore,
             <<"P","r","o","v","i","d","e","d"," ","d","e","t","a","i","l","e","d"," ","a","n","d"," ","r",
               "e","l","e","v","a","n","t"," ","a","n","s","w","e","r","s"," ","t","o"," ","m",
               "u","l","t","i","p","l","e"," ","q","u","e","s","t","i","o","n","s">>)
        \o When(AtLeast(scores.technical, HighScore),
             <<"D","e","m","o","n","s","t","r","a","t","e","d"," ","g","o","o","d"," ","t","e","c","h","n",
               "i","c","a","l"," ","k","n","o","w","l","e","d","g","e"," ","r","e","l","e","v",
               "a","n","t"," ","t","o"," ","t","h","e"," ","p","o","s","i","t","i","o","n">>)
        \o When(AtLeast(scores.communication, HighScore),
             <<"C","o","m","m","u","n","i","c","a","t","e","d"," ","i","d","e","a","s"," ","c","l","e","a",
               "r","l","y"," ","a","n","d"," ","e","f","f","e","c","t","i","v","e","l","y">>)
        \o When(AtLeast(scores.problemSolving, HighScore),
             <<"S","h","o","w","e","d"," ","s","t","r","o","n","g"," ","p","r","o","b","l","e","m","-","s",
               "o","l","v","i","n","g"," ","a","b","i","l","i","t","i","e","s">>),
        genericStrengths)

\* as identifyStrengths, the category strengths pushed before the one of the
\* question scores
identifyStrengths_categoriesFirst(questionAnalysis, scores) ==
    padded(
        When(AtLeast(scores.technical, CategoryScore),
             <<"D","e","m","o","n","s","t","r","a","t","e","d"," ","g","o","o","d"," ","t","e","c","h","n",
               "i","c","a","l"," ","k","n","o","w","l","e","d","g","e"," ","r","e","l","e","v",
               "a","n","t"," ","t","o"," ","t","h","e"," ","p","o","s","i","t","i","o","n">>)
        \o When(AtLeast(scores.communication, CategoryScore),
             <<"C","o","m","m","u","n","i","c","a","t","e","d"," ","i","d","e","a","s"," ","c","l","e","a",
               "r","l","y"," ","a","n","d"," ","e","f","f","e","c","t","i","v","e","l","y">>)
        \o When(AtLeast(scores.problemSolving, CategoryScore),
             <<"S","h","o","w","e","d"," ","s","t","r","o","n","g"," ","p","r","o","b","l","e","m","-","s",
               "o","l","v","i","n","g"," ","a","b","i","l","i","t","i","e","s">>)
        \o When(\E i \in 1..Len(questionAnalysis) : questionAnalysis[i].score >= HighScore,
             <<"P","r","o","v","i","d","e","d"," ","d","e","t","a","i","l","e","d"," ","a","n","d"," ","r",
               "e","l","e","v","a","n","t"," ","a","n","s","w","e","r","s"," ","t","o"," ","m",
               "u","l","t","i","p","l","e"," ","q","u","e","s","t","i","o","n","s">>),
        genericStrengths)

identifyStrengths(questionAnalysis, scores) ==
    padded(
        When(\E i \in 1..Len(questionAnalysis) : questionAnalysis[i].score >= HighScore,
             <<"P","r","o","v","i","d","e","d"," ","d","e","t","a","i","l","e","d"," ","a","n","d"," ","r",
               "e","l","e","v","a","n","t"," ","a","n","s","w","e","r","s"," ","t","o"," ","m",
               "u","l","t","i","p","l","e"," ","q","u","e","s","t","i","o","n","s">>)
        \o When(AtLeast(scores.technical, CategoryScore),
             <<"D","e","m","o","n","s","t","r","a","t","e","d"," ","g","o","o","d"," ","t","e","c","h","n",
               "i","c","a","l"," ","k","n","o","w","l","e","d","g","e"," ","r","e","l","e","v",
               "a","n","t"," ","t","o"," ","t","h","e"," ","p","o","s","i","t","i","o","n">>)
        \o When(AtLeast(scores.communication, CategoryScore),
             <<"C","o","m","m","u","n","i","c","a","t","e","d"," ","i","d","e","a","s"," ","c","l","e","a",
               "r","l","y"," ","a","n","d"," ","e","f","f","e","c","t","i","v","e","l","y">>)
        \o When(AtLeast(scores.problemSolving, CategoryScore),
             <<"S","h","o","w","e","d"," ","s","t","r","o","n","g"," ","p","r","o","b","l","e","m","-","s",
               "o","l","v","i","n","g"," ","a","b","i","l","i","t","i","e","s">>),
        genericStrengths)

genericImprovements == <<
  <<"Q","u","a","n","t","i","f","y"," ","a","c","h","i","e","v","e","m","e","n","t","s"," ","w",
    "i","t","h"," ","m","e","t","r","i","c","s"," ","w","h","e","n"," ","p","o","s","s","i","b",
    "l","e">>,
  <<"R","e","s","e","a","r","c","h"," ","t","h","e"," ","c","o","m","p","a","n","y"," ","m","o",
    "r","e"," ","t","h","o","r","o","u","g","h","l","y"," ","b","e","f","o","r","e"," ","t","h",
    "e"," ","i","n","t","e","r","v","i","e","w">>,
  <<"P","r","e","p","a","r","e"," ","m","o","r","e"," ","c","o","n","c","i","s","e"," ","r","e",
    "s","p","o","n","s","e","s"," ","t","o"," ","c","o","m","m","o","n"," ","q","u","e","s","t",
    "i","o","n","s">>,
  <<"P","r","a","c","t","i","c","e"," ","t","h","e"," ","S","T","A","R"," ","m","e","t","h","o",
    "d"," ","(","S","i","t","u","a","t","i","o","n",","," ","T","a","s","k",","," ","A","c","t",
    "i","o","n",","," ","R","e","s","u","l","t",")"," ","f","o","r"," ","b","e","h","a","v","i",
    "o","r","a","l"," ","q","u","e","s","t","i","o","n","s">> >>

\* as identifyImprovements, the whole generic pool appended to a short list
identifyImprovements_wholePool(questionAnalysis, scores) ==
    LET found ==
          When(\E i \in 1..Len(questionAnalysis) : questionAnalysis[i].score <= LowScore,
               <<"P","r","o","v","i","d","e"," ","m","o","r","e"," ","d","e","t","a","i","l","e","d"," ","r",
                 "e","s","p","o","n","s","e","s"," ","w","i","t","h"," ","s","p","e","c","i",
                 "f","i","c"," ","e","x","a","m","p","l","e","s">>)
          \o When(Below(scores.technical, CategoryScore),
               <<"H","i","g","h","l","i","g","h","t"," ","t","e","c","h","n","i","c","a","l"," ","s","k","i",
                 "l","l","s"," ","m","o","r","e"," ","c","l","e","a","r","l","y"," ","i","n",
                 " ","a","n","s","w","e","r","s">>)
          \o When(Below(scores.communication, CategoryScore),
               <<"S","t","r","u","c","t","u","r","e"," ","a","n","s","w","e","r","s"," ","m","o","r","e"," ",
                 "c","l","e","a","r","l","y"," ","w","i","t","h"," ","a"," ","b","e","g","i",
                 "n","n","i","n","g",","," ","m","i","d","d","l","e",","," ","a","n","d"," ",
                 "c","o","n","c","l","u","s","i","o","n">>)
          \o When(Below(scores.problemSolving, CategoryScore),
               <<"I","n","c","l","u","d","e"," ","m","o","r","e"," ","e","x","a","m","p","l","e","s"," ","o",
                 "f"," ","p","r","o","b","l","e","m","-","s","o","l","v","i","n","g"," ","i",
                 "n"," ","r","e","s","p","o","n","s","e","s">>)
    IN  IF Len(found) < MinListed THEN found \o genericImprovements ELSE found

\* as identifyImprovements, a category score of exactly 75 flagged too
identifyImprovements_inclusive(questionAnalysis, scores) ==
    padded(
        When(\E i \in 1..Len(questionAnalysis) : questionAnalysis[i].score <= LowScore,
             <<"P","r","o","v","i","d","e"," ","m","o","r","e"," ","d","e","t","a","i","l","e","d"," ","r",
               "e","s","p","o","n","s","e","s"," ","w","i","t","h"," ","s","p","e","c","i","f",
               "i","c"," ","e","x","a","m","p","l","e","s">>)
        \o When(Below(scores.technical, CategoryScore + 1),
             <<"H","i","g","h","l","i","g","h","t"," ","t","e","c","h","n","i","c","a","l"," ","s","k","i",
               "l","l","s"," ","m","o","r","e"," ","c","l","e","a","r","l","y"," ","i","n"," ",
               "a","n","s","w","e","r","s">>)
        \o When(Below(scores.communication, CategoryScore + 1),
             <<"S","t","r","u","c","t","u","r","e"," ","a","n","s","w","e","r","s"," ","m","o","r","e"," ",
               "c","l","e","a","r","l","y"," ","w","i","t","h"," ","a"," ","b","e","g","i","n",
               "n","i","n","g",","," ","m","i","d","d","l","e",","," ","a","n","d"," ","c","o",
               "n","c","l","u","s","i","o","n">>)
        \o When(Below(scores.problemSolving, CategoryScore + 1),
             <<"I","n","c","l","u","d","e"," ","m","o","r","e"," ","e","x","a","m","p","l","e","s"," ","o",
               "f"," ","p","r","o","b","l","e","m","-","s","o","l","v","i","n","g"," ","i","n",
               " ","r","e","s","p","o","n","s","e","s">>),
        genericImprovements)

identifyImprovements(questionAnalysis, scores) ==
    padded(
        When(\E i \in 1..Len(questionAnalysis) : questionAnalysis[i].score <= LowScore,
             <<"P","r","o","v","i","d","e"," ","m","o","r","e"," ","d","e","t","a","i","l","e","d"," ","r",
               "e","s","p","o","n","s","e","s"," ","w","i","t","h"," ","s","p","e","c","i","f",
               "i","c"," ","e","x","a","m","p","l","e","s">>)
        \o When(Below(scores.technical, CategoryScore),
             <<"H","i","g","h","l","i","g","h","t"," ","t","e","c","h","n","i","c","a","l"," ","s","k","i",
               "l","l","s"," ","m","o","r","e"," ","c","l","e","a","r","l","y"," ","i","n"," ",
               "a","n","s","w","e","r","s">>)
        \o When(Below(scores.communication, CategoryScore),
             <<"S","t","r","u","c","t","u","r","e"," ","a","n","s","w","e","r","s"," ","m","o","r","e"," ",
               "c","l","e","a","r","l","y"," ","w","i","t","h"," ","a"," ","b","e","g","i","n",
               "n","i","n","g",","," ","m","i","d","d","l","e",","," ","a","n","d"," ","c","o",
               "n","c","l","u","s","i","o","n">>)
        \o When(Below(scores.problemSolving, CategoryScore),
             <<"I","n","c","l","u","d","e"," ","m","o","r","e"," ","e","x","a","m","p","l","e","s"," ","o",
               "f"," ","p","r","o","b","l","e","m","-","s","o","l","v","i","n","g"," ","i","n",
               " ","r","e","s","p","o","n","s","e","s">>),
        genericImprovements)

\* the improvement -> recommendation table, as pairs <<key, value>>
recommendationMap == <<
  << <<"P","r","o","v","i","d","e"," ","m","o","r","e"," ","d","e","t","a","i","l","e","d"," ","r",
       "e","s","p","o","n","s","e","s"," ","w","i","t","h"," ","s","p","e","c","i","f","i","c",
       " ","e","x","a","m","p","l","e","s">>,
     <<"P","r","a","c","t","i","c","e"," ","a","n","s","w","e","r","i","n","g"," ","q","u","e","s",
       "t","i","o","n","s"," ","u","s","i","n","g"," ","t","h","e"," ","S","T","A","R"," ","m",
       "e","t","h","o","d"," ","t","o"," ","p","r","o","v","i","d","e"," ","s","t","r","u","c",
       "t","u","r","e","d"," ","e","x","a","m","p","l","e","s">> >>,
  << <<"H","i","g","h","l","i","g","h","t"," ","t","e","c","h","n","i","c","a","l"," ","s","k","i",
       "l","l","s"," ","m","o","r","e"," ","c","l","e","a","r","l","y"," ","i","n"," ","a","n",
       "s","w","e","r","s">>,
     <<"C","r","e","a","t","e"," ","a"," ","l","i","s","t"," ","o","f"," ","y","o","u","r"," ","t",
       "e","c","h","n","i","c","a","l"," ","s","k","i","l","l","s"," ","w","i","t","h"," ","s",
       "p","e","c","i","f","i","c"," ","p","r","o","j","e","c","t"," ","e","x","a","m","p","l",
       "e","s"," ","f","o","r"," ","e","a","c","h">> >>,
  << <<"S","t","r","u","c","t","u","r","e"," ","a","n","s","w","e","r","s"," ","m","o","r","e"," ",
       "c","l","e","a","r","l","y"," ","w","i","t","h"," ","a"," ","b","e","g","i","n","n","i",
       "n","g",","," ","m","i","d","d","l","e",","," ","a","n","d"," ","c","o","n","c","l","u",
       "s","i","o","n">>,
     <<"R","e","c","o","r","d"," ","y","o","u","r","s","e","l","f"," ","a","n","s","w","e","r","i",
       "n","g"," ","p","r","a","c","t","i","c","e"," ","q","u","e","s","t","i","o","n","s"," ",
       "a","n","d"," ","r","e","v","i","e","w"," ","f","o","r"," ","c","l","a","r","i","t","y",
       " ","a","n","d"," ","s","t","r","u","c","t","u","r","e">> >>,
  << <<"I","n","c","l","u","d","e"," ","m","o","r","e"," ","e","x","a","m","p","l","e","s"," ","o",
       "f"," ","p","r","o","b","l","e","m","-","s","o","l","v","i","n","g"," ","i","n"," ","r",
       "e","s","p","o","n","s","e","s">>,
     <<"P","r","e","p","a","r","e"," ","5","-","7"," ","s","t","o","r","i","e","s"," ","a","b","o",
       "u","t"," ","o","v","e","r","c","o","m","i","n","g"," ","c","h","a","l","l","e","n","g",
       "e","s"," ","i","n"," ","p","r","e","v","i","o","u","s"," ","r","o","l","e","s">> >>,
  << <<"Q","u","a","n","t","i","f","y"," ","a","c","h","i","e","v","e","m","e","n","t","s"," ","w",
       "i","t","h"," ","m","e","t","r","i","c","s"," ","w","h","e","n"," ","p","o","s","s","i",
       "b","l","e">>,
     <<"R","e","v","i","e","w"," ","y","o","u","r"," ","r","e","s","u","m","e"," ","a","n","d"," ",
       "a","d","d"," ","s","p","e","c","i","f","i","c"," ","n","u","m","b","e","r","s"," ","a",
       "n","d"," ","p","e","r","c","e","n","t","a","g","e","s"," ","t","o"," ","y","o","u","r",
       " ","a","c","h","i","e","v","e","m","e","n","t","s">> >>,
  << <<"R","e","s","e","a","r","c","h"," ","t","h","e"," ","c","o","m","p","a","n","y"," ","m","o",
       "r","e"," ","t","h","o","r","o","u","g","h","l","y"," ","b","e","f","o","r","e"," ","t",
       "h","e"," ","i","n","t","e","r","v","i","e","w">>,
     <<"S","p","e","n","d"," ","a","t"," ","l","e","a","s","t"," ","o","n","e"," ","h","o","u","r",
       " ","r","e","s","e","a","r","c","h","i","n","g"," ","t","h","e"," ","c","o","m","p","a",
       "n","y","'","s"," ","p","r","o","d","u","c","t","s",","," ","c","u","l","t","u","r","e",
       ","," ","a","n","d"," ","r","e","c","e","n","t"," ","n","e","w","s">> >>,
  << <<"P","r","e","p","a","r","e"," ","m","o","r","e"," ","c","o","n","c","i","s","e"," ","r","e",
       "s","p","o","n","s","e","s"," ","t","o"," ","c","o","m","m","o","n"," ","q","u","e","s",
       "t","i","o","n","s">>,
     <<"P","r","a","c","t","i","c","e"," ","l","i","m","i","t","i","n","g"," ","y","o","u","r"," ",
       "a","n","s","w","e","r","s"," ","t","o"," ","1","-","2"," ","m","i","n","u","t","e","s",
       " ","f","o","r"," ","m","o","s","t"," ","q","u","e","s","t","i","o","n","s">> >>,
  << <<"P","r","a","c","t","i","c","e"," ","t","h","e"," ","S","T","A","R"," ","m","e","t","h","o",
       "d"," ","f","o","r"," ","b","e","h","a","v","i","o","r","a","l"," ","q","u","e","s","t",
       "i","o","n","s">>,
     <<"W","o","r","k"," ","w","i","t","h"," ","a"," ","f","r","i","e","n","d"," ","t","o"," ","p",
       "r","a","c","t","i","c","e"," ","b","e","h","a","v","i","o","r","a","l"," ","i","n","t",
       "e","r","v","i","e","w"," ","q","u","e","s","t","i","o","n","s"," ","u","s","i","n","g",
       " ","t","h","e"," ","S","T","A","R"," ","f","r","a","m","e","w","o","r","k">> >> >>

genericRecommendations == <<
  <<"J","o","i","n"," ","p","r","o","f","e","s","s","i","o","n","a","l"," ","g","r","o","u","p",
    "s"," ","r","e","l","a","t","e","d"," ","t","o"," ","y","o","u","r"," ","f","i","e","l","d",
    " ","t","o"," ","e","x","p","a","n","d"," ","y","o","u","r"," ","n","e","t","w","o","r","k">>,
  <<"T","a","k","e"," ","a","n"," ","o","n","l","i","n","e"," ","c","o","u","r","s","e"," ","t",
    "o"," ","s","t","r","e","n","g","t","h","e","n"," ","s","k","i","l","l","s"," ","i","n"," ",
    "a","r","e","a","s"," ","m","e","n","t","i","o","n","e","d"," ","i","n"," ","t","h","e"," ",
    "j","o","b"," ","d","e","s","c","r","i","p","t","i","o","n">>,
  <<"P","r","e","p","a","r","e"," ","t","h","o","u","g","h","t","f","u","l"," ","q","u","e","s",
    "t","i","o","n","s"," ","t","o"," ","a","s","k"," ","a","t"," ","t","h","e"," ","e","n","d",
    " ","o","f"," ","y","o","u","r"," ","n","e","x","t"," ","i","n","t","e","r","v","i","e","w">>,
  <<"C","r","e","a","t","e"," ","a"," ","p","o","r","t","f","o","l","i","o"," ","t","h","a","t",
    " ","s","h","o","w","c","a","s","e","s"," ","y","o","u","r"," ","r","e","l","e","v","a","n",
    "t"," ","p","r","o","j","e","c","t","s"," ","a","n","d"," ","s","k","i","l","l","s">> >>

\* recommendationMap[improvement] || `To address "...", practice with ...`
recommendationFor(improvement) ==
    IF \E i \in 1..Len(recommendationMap) : recommendationMap[i][1] = improvement
    THEN recommendationMap[
             CHOOSE i \in 1..Len(recommendationMap) :
                 recommendationMap[i][1] = improvement][2]
    ELSE <<"T","o"," ","a","d","d","r","e","s","s"," ","\"">> \o toLowerCase(improvement)
             \o <<"\"",","," ","p","r","a","c","t","i","c","e"," ","w","i","t","h"," ","a"," ","f","r","i","e",
                  "n","d"," ","o","r"," ","c","a","r","e","e","r"," ","c","o","u","n","s","e",
                  "l","o","r">>

\* as generateRecommendations, the recommendations in the reverse order
generateRecommendations_reversed(improvements) ==
    padded([i \in 1..Len(improvements) |->
               recommendationFor(improvements[Len(improvements) + 1 - i])],
           genericRecommendations)

generateRecommendations(improvements) ==
    padded([i \in 1..Len(improvements) |-> recommendationFor(improvements[i])],
           genericRecommendations)

(***************************************************************************)
(* generateFallbackReport, generatePerformanceReport                       *)
(***************************************************************************)
FallbackOverall == 70

FallbackTechnical == 68

FallbackCommunication == 75

FallbackProblemSolving == 65

FallbackQuestionScore == 70

\* item.feedback || "..." : undefined, null and "" are falsy
feedbackOrDefault(feedback) ==
    IF IsString(feedback) /\ feedback.s # << >> THEN feedback
    ELSE Str(<<"G","o","o","d"," ","a","n","s","w","e","r"," ","t","h","a","t"," ","c","o","u","l","d"," ",
               "b","e"," ","m","o","r","e"," ","d","e","t","a","i","l","e","d",".">>)

\* interviewData.map throws when interviewData is no array, item.question when
\* an item is null or undefined
generateFallbackReportThrows(interviewData) ==
    \/ interviewData.tag # "array"
    \/ \E i \in 1..Len(interviewData.items) : interviewData.items[i].tag # "object"

generateFallbackReport(interviewData) ==
    [overallScore |-> FallbackOverall,
     technicalScore |-> FallbackTechnical,
     communicationScore |-> FallbackCommunication,
     problemSolvingScore |-> FallbackProblemSolving,
     strengths |-> <<
       <<"G","o","o","d"," ","c","o","m","m","u","n","i","c","a","t","i","o","n"," ","s","k","i","l",
         "l","s">>,
       <<"D","e","m","o","n","s","t","r","a","t","e","s"," ","t","e","c","h","n","i","c","a","l"," ",
         "k","n","o","w","l","e","d","g","e">>,
       <<"S","h","o","w","s"," ","e","n","t","h","u","s","i","a","s","m"," ","f","o","r"," ","t","h",
         "e"," ","r","o","l","e">> >>,
     improvements |-> <<
       <<"C","o","u","l","d"," ","p","r","o","v","i","d","e"," ","m","o","r","e"," ","s","p","e","c",
         "i","f","i","c"," ","e","x","a","m","p","l","e","s">>,
       <<"M","o","r","e"," ","d","e","t","a","i","l","e","d"," ","t","e","c","h","n","i","c","a","l",
         " ","a","n","s","w","e","r","s"," ","n","e","e","d","e","d">>,
       <<"C","o","u","l","d"," ","s","t","r","u","c","t","u","r","e"," ","a","n","s","w","e","r","s",
         " ","m","o","r","e"," ","c","l","e","a","r","l","y">> >>,
     recommendations |-> <<
       <<"P","r","a","c","t","i","c","e"," ","s","t","r","u","c","t","u","r","e","d"," ","a","n","s",
         "w","e","r","i","n","g"," ","t","e","c","h","n","i","q","u","e","s">>,
       <<"P","r","e","p","a","r","e"," ","m","o","r","e"," ","c","o","n","c","r","e","t","e"," ","e",
         "x","a","m","p","l","e","s">>,
       <<"R","e","s","e","a","r","c","h"," ","c","o","m","p","a","n","y","-","s","p","e","c","i","f",
         "i","c"," ","i","n","f","o","r","m","a","t","i","o","n">> >>,
     questionAnalysis |->
       [i \in 1..Len(interviewData.items) |->
           [question |-> interviewData.items[i].question,
            score |-> FallbackQuestionScore,
            feedback |-> feedbackOrDefault(interviewData.items[i].feedback)]]]

\* an exception inside the try block of generatePerformanceReport
generatePerformanceReportCatches(jobDescription, interviewData) ==
    ~IsString(jobDescription) \/ analyzeAnswersThrows(interviewData)

\* the try block of generatePerformanceReport after analyzeAnswers
performanceReport(questionAnalysis, jobKeywords, random) ==
    LET scores == calculateScores(questionAnalysis, jobKeywords, random)
        strengths == identifyStrengths(questionAnalysis, scores)
        improvements == identifyImprovements(questionAnalysis, scores)
    IN  [overallScore |-> scores.overall,
         technicalScore |-> scores.technical,
         communicationScore |-> scores.communication,
         problemSolvingScore |-> scores.problemSolving,
         strengths |-> strengths,
         improvements |-> improvements,
         recommendations |-> generateRecommendations(improvements),
         questionAnalysis |-> questionAnalysis]

(***************************************************************************)
(* Inputs.                                                                 *)
(***************************************************************************)
BackendEngineer == Str(<<"B","a","c","k","e","n","d"," ","E","n","g","i","n","e","e","r">>)

\* no vocabulary term
DescEmpty == << >>

\* two vocabulary terms: react, node
DescTwo == <<"R","e","a","c","t"," ","a","n","d"," ","N","o","d","e">>

\* exactly three vocabulary terms: python, aws, sql
DescThree == <<"P","y","t","h","o","n",","," ","S","Q","L"," ","a","n","d"," ","A","W","S">>

\* five vocabulary terms: javascript, java (inside javascript), docker, aws, sql
DescFive == <<"J","a","v","a","S","c","r","i","p","t",","," ","S","Q","L",","," ","A","W","S",","," ","D",
              "o","c","k","e","r">>

Descriptions == {DescEmpty, DescTwo, DescThree, DescFive}

\* the terms an answer names, in the order it names them
answerTerms == << <<"d","o","c","k","e","r">>, <<"a","w","s">>, <<"s","q","l">>, <<"j","a","v","a">> >>

answerTermsCapitalised == << <<"D","o","c","k","e","r">>, <<"A","W","S">>, <<"S","Q","L">>, <<"J","a","v","a">> >>

Blank(m) == [i \in 1..m |-> IF i % 2 = 1 THEN " " ELSE "\n"]

\* an answer of n words separated by single spaces, the first k of them terms
\* (capitalised or not), the others the word x, after lead and before trail
\* characters of whitespace
MkAnswer(lead, n, k, trail, caps) ==
    Blank(lead)
    \o Concat([i \in 1..n |->
           (IF i = 1 THEN << >> ELSE <<" ">>)
           \o (IF i <= Min(k, Len(answerTerms))
               THEN (IF caps THEN answerTermsCapitalised[i] ELSE answerTerms[i])
               ELSE <<"x">>)])
    \o Blank(trail)

\* word counts on both sides of every length threshold
WordCounts ==
    {0, 1, TinyAnswer - 1, TinyAnswer, ShortAnswer - 1, ShortAnswer,
     FullAnswer, FullAnswer + 1, LongAnswer, LongAnswer + 1}

Answers ==
    {MkAnswer(0, n, k, 0, FALSE) : n \in WordCounts, k \in 0..Len(answerTerms)}
    \cup {MkAnswer(lead, n, 0, trail, FALSE) :
             lead \in 0..2, trail \in 0..1, n \in {0, TinyAnswer - 1, ShortAnswer - 1}}
    \cup {MkAnswer(0, ShortAnswer, k, 0, TRUE) : k \in {1, 4}}

\* three answers of different scores, short enough to be combined
ShortAnswers ==
    {MkAnswer(0, 1, 0, 0, FALSE), MkAnswer(0, TinyAnswer, 1, 0, FALSE),
     MkAnswer(0, TinyAnswer, 4, 0, TRUE)}

QuestionAt(i) == Str(behavioralQuestionTemplates[i])

SeqsUpTo(S, n) == UNION {[1..m -> S] : m \in 0..n}

\* interviewData of well-formed items without feedback
DataOf(answers) ==
    Arr([i \in 1..Len(answers) |-> Item(QuestionAt(i), Str(answers[i]), Undefined)])

AnalysisData ==
    {DataOf(<<a>>) : a \in Answers} \cup {DataOf(as) : as \in SeqsUpTo(ShortAnswers, 2)}

\* four terms in more than 150 words: the score 95
BestAnswer == MkAnswer(0, LongAnswer + 1, 4, 0, FALSE)

ReportData ==
    {DataOf(as) : as \in SeqsUpTo(ShortAnswers, MaxItems)} \cup {DataOf(<<BestAnswer>>)}

Nice == Str(<<"N","i","c","e",".">>)

\* interviewData that is no array of objects with string answers
MalformedData ==
    {NullArr,
     Arr(<<NullItem>>),
     Arr(<<Item(QuestionAt(1), Str(<<"d","o","c","k","e","r">>), Undefined), NullItem>>),
     Arr(<<Item(QuestionAt(1), Undefined, Undefined)>>),
     Arr(<<Item(QuestionAt(1), Null, Nice),
           Item(QuestionAt(2), Str(<<"d","o","c","k","e","r">>), Str(<< >>))>>)}

ReportDescriptions == {Str(DescFive), Str(DescEmpty), Undefined}


UndefinedArr == [tag |-> "undefined", items |-> << >>]

DockerQuestion == technicalQuestionTemplates(<<"d","o","c","k","e","r">>)[1]

PreviousQuestions ==
    {UndefinedArr, Arr(<< >>), Arr(<<DockerQuestion>>), NullArr}

CandidateAnswers ==
    {Str(MkAnswer(0, TinyAnswer, 2, 0, TRUE)), Str(<< >>), Undefined}

PythonQuestion == technicalQuestionTemplates(<<"p","y","t","h","o","n">>)[2]

\* the description whose sessions of follow-ups are followed
SessionDescriptions == {Str(DescThree)}

\* the calls of generateNextQuestion,
\* <<jobDescription, candidateAnswer, previousQuestions>>: every combination
\* of the values above, and the first calls of the sessions
NextQuestionInputs ==
    (ReportDescriptions \X CandidateAnswers \X PreviousQuestions)
    \cup (SessionDescriptions \X {Str(<< >>)}
              \X {Arr(<< >>), Arr(<<PythonQuestion>>)})

PoolSize(description) ==
    Len(allQuestions(BackendEngineer, extractKeywords(toLowerCase(description))))

\* the calls of generateInterviewQuestions, <<jobTitle, jobDescription, numQuestions>>:
\* every count up to MaxCount, the default count and the whole pool for one
\* description, fewer counts for another, and no description at all
QuestionInputs ==
    {<<BackendEngineer, Str(DescThree), n>> :
        n \in 0..MaxCount \cup {DefaultNumQuestions, PoolSize(DescThree)}}
    \cup {<<BackendEngineer, Str(DescEmpty), n>> :
        n \in {0, 1, DefaultNumQuestions, PoolSize(DescEmpty)}}
    \cup {<<BackendEngineer, Undefined, DefaultNumQuestions>>,
          <<Undefined, Undefined, DefaultNumQuestions>>}

\* the draws of Math.random(), in RandDen-ths: the least, the middle and the
\* greatest value below 1
RandomDraws == {0, RandDen \div 2, RandDen - 1}

\* the three draws of calculateScores
Randoms == [1..3 -> RandomDraws]

(***************************************************************************)
(* The calls.  pc is "idle" before a call and "done" after it; op and args *)
(* name the call, outcome says whether it returned or raised, result is    *)
(* what it returned and first remembers the report call before a repeated  *)
(* one.                                                                    *)
(***************************************************************************)
NoResult == << >>

NoCall == [called |-> FALSE]

\* no call made
InitCalls ==
    /\ pc = "idle"
    /\ op = "none"
    /\ args = << >>
    /\ outcome = "none"
    /\ caught = FALSE
    /\ result = NoResult
    /\ first = NoCall
    /\ followUps = << >>

Returns(name, a, c, r) ==
    /\ pc' = "done"
    /\ caught' = c
    /\ op' = name
    /\ args' = a
    /\ outcome' = "returned"
    /\ result' = r
    /\ UNCHANGED <<routeVars, hookVars>>

Raises(name, a, c) ==
    /\ pc' = "done"
    /\ caught' = c
    /\ op' = name
    /\ args' = a
    /\ outcome' = "raised"
    /\ result' = NoResult
    /\ UNCHANGED <<routeVars, hookVars>>

ExtractKeywords ==
    /\ pc = "idle"
    /\ \E d \in Descriptions, lowered \in BOOLEAN :
          LET description == IF lowered THEN toLowerCase(d) ELSE d
          IN  Returns("extractKeywords", [description |-> description], FALSE,
                      extractKeywords(description))
    /\ UNCHANGED <<first, followUps>>

GenerateInterviewQuestions ==
    /\ pc = "idle"
    /\ \E input \in QuestionInputs :
          \E generated \in generateInterviewQuestions(input[1], input[2], input[3]) :
              Returns("generateInterviewQuestions",
                      [jobTitle |-> input[1], jobDescription |-> input[2],
                       numQuestions |-> input[3]],
                      generateInterviewQuestionsCatches(input[2]),
                      generated)
    /\ UNCHANGED <<first, followUps>>

GenerateNextQuestion ==
    /\ pc = "idle"
    /\ \E input \in NextQuestionInputs :
          \E next \in generateNextQuestion(input[1], QuestionAt(1), input[2], input[3]) :
              /\ Returns("generateNextQuestion",
                         [jobDescription |-> input[1],
                          currentQuestion |-> QuestionAt(1),
                          candidateAnswer |-> input[2],
                          previousQuestions |-> input[3]],
                         generateNextQuestionCatches(input[1], input[2], input[3]),
                         next)
              /\ followUps' = <<next.question>>
    /\ UNCHANGED first

\* the session goes on: the caller appends the question it was given to
\* previousQuestions, asks it, and calls generateNextQuestion with the answer
ContinueSession ==
    /\ pc = "done"
    /\ op = "generateNextQuestion"
    /\ ~caught
    /\ args.jobDescription \in SessionDescriptions
    /\ Len(followUps) < MaxFollowUps
    /\ LET previousQuestions ==
               Arr(Append(previousQuestionsOrDefault(args.previousQuestions),
                          result.question))
       IN  \E next \in generateNextQuestion(args.jobDescription, Str(result.question),
                            Str(<< >>), previousQuestions) :
               /\ Returns("generateNextQuestion",
                          [jobDescription |-> args.jobDescription,
                           currentQuestion |-> Str(result.question),
                           candidateAnswer |-> Str(<< >>),
                           previousQuestions |-> previousQuestions],
                          FALSE, next)
               /\ followUps' = Append(followUps, next.question)
    /\ UNCHANGED first

AnalyzeAnswers ==
    /\ pc = "idle"
    /\ \E interviewData \in AnalysisData \cup MalformedData, d \in Descriptions :
          LET jobKeywords == extractKeywords(toLowerCase(d))
              a == [interviewData |-> interviewData, jobKeywords |-> jobKeywords]
          IN  IF analyzeAnswersThrows(interviewData)
              THEN Raises("analyzeAnswers", a, FALSE)
              ELSE Returns("analyzeAnswers", a, FALSE,
                           analyzeAnswers(interviewData, jobKeywords))
    /\ UNCHANGED <<first, followUps>>

\* one call of generatePerformanceReport on its arguments a
generatePerformanceReport(a) ==
    IF ~generatePerformanceReportCatches(a.jobDescription, a.interviewData)
    THEN \E jobKeywords \in {extractKeywords(toLowerCase(a.jobDescription.s))} :
           \E questionAnalysis \in {analyzeAnswers(a.interviewData, jobKeywords)} :
             \E random \in Randoms :
                 Returns("generatePerformanceReport", a, FALSE,
                         performanceReport(questionAnalysis, jobKeywords, random))
    ELSE IF generateFallbackReportThrows(a.interviewData)
    THEN Raises("generatePerformanceReport", a, TRUE)
    ELSE Returns("generatePerformanceReport", a, TRUE,
                 generateFallbackReport(a.interviewData))

GeneratePerformanceReport ==
    /\ pc = "idle"
    /\ \E jobDescription \in ReportDescriptions, interviewData \in ReportData \cup MalformedData :
          generatePerformanceReport(
              [jobTitle |-> BackendEngineer, jobDescription |-> jobDescription,
               interviewData |-> interviewData])
    /\ UNCHANGED <<first, followUps>>

\* the same interviewData with other feedback fields
WithFeedback(interviewData, feedbacks) ==
    Arr([i \in 1..Len(interviewData.items) |->
            [interviewData.items[i] EXCEPT !.feedback = feedbacks[i]]])

\* the caller asks for the report again, the feedback fields now filled in:
\* with the feedback of the report it has, or with a text of its own
RepeatPerformanceReport ==
    /\ pc = "done"
    /\ op = "generatePerformanceReport"
    /\ outcome = "returned"
    /\ first = NoCall
    /\ first' = [called |-> TRUE, interviewData |-> args.interviewData,
                 overallScore |-> result.overallScore,
                 scores |-> [i \in 1..Len(result.questionAnalysis) |->
                                result.questionAnalysis[i].score]]
    /\ UNCHANGED followUps
    /\ \E own \in BOOLEAN :
          generatePerformanceReport(
              [args EXCEPT !.interviewData =
                  WithFeedback(@, [i \in 1..Len(result.questionAnalysis) |->
                      IF own THEN Nice ELSE result.questionAnalysis[i].feedback])])

(***************************************************************************)
(* The LLM adapter.  A call throws (no API key, no network, an answer that *)
(* cannot be read) or returns what the model wrote; nothing bounds the     *)
(* numbers the model writes.                                               *)
(***************************************************************************)
\* the questions the model writes
LlmQuestions == << <<"W","h","y"," ","D","o","c","k","e","r","?">>, <<"W","h","y"," ","A","W","S","?">> >>

\* the scores the model writes: none, one on its 1-10 scale, one above 100
LlmScores == {0, 8, 101}

LlmFeedback == <<"C","l","e","a","r"," ","a","n","s","w","e","r",".">>

\* analysis.score || 5, report.overallScore || 5
AdapterDefaultScore == 5

OrDefaultScore(score) == IF score = 0 THEN AdapterDefaultScore ELSE score

\* a call a route makes, of the adapter or of the local engine, and how it ended
Call(callee, function, ended) ==
    [callee |-> callee, function |-> function, outcome |-> ended]

\* what generateInterviewQuestions of the adapter returns when it does not
\* throw: questions.slice(0, numQuestions)
adapterQuestions(numQuestions) ==
    {SubSeq(LlmQuestions, 1, Min(k, numQuestions)) : k \in 1..Len(LlmQuestions)}

\* what analyzeAnswer of the adapter returns when it does not throw
adapterAnalyses ==
    {[score |-> OrDefaultScore(s), feedback |-> LlmFeedback] : s \in LlmScores}

\* what generatePerformanceReport of the adapter returns when it does not
\* throw: a report without questionAnalysis
adapterReports ==
    {[kind |-> "adapter", overallScore |-> OrDefaultScore(s)] : s \in LlmScores}

(***************************************************************************)
(* Storage: one interview and its question records, a question's id being  *)
(* its place among them.                                                   *)
(***************************************************************************)
Num(n) == [tag |-> "number", n |-> n]

NullNum == [tag |-> "null", n |-> 0]

\* !value for a stored score: null and 0 are falsy
IsFalsy(score) == score.tag = "null" \/ score.n = 0

NoInterview ==
    [status |-> "none", title |-> Undefined, jobDescription |-> Undefined,
     score |-> NullNum, feedback |-> NoResult]

\* storage.createQuestion({question, answer: "", feedback: "", score: null})
createQuestion(question) ==
    [question |-> question, answer |-> << >>, feedback |-> << >>, score |-> NullNum]

\* req.body.numQuestions ? parseInt(req.body.numQuestions) : 5
RouteDefaultQuestions == 5

requestedQuestions(numQuestions) ==
    IF numQuestions = 0 THEN RouteDefaultQuestions ELSE numQuestions

\* the local fallback of the route: generateInterviewQuestionsLocal(jobTitle,
\* jobDescription), the count left to its default
localQuestions(jobTitle, jobDescription) ==
    generateInterviewQuestions(jobTitle, jobDescription, DefaultNumQuestions)

\* generateInterviewQuestions of the routes: the adapter's questions, or when
\* it throws the local ones, with the calls made
routeQuestions(jobTitle, jobDescription, numQuestions) ==
    {[questions |-> q,
      calls |-> <<Call("adapter", "generateInterviewQuestions", "returned")>>] :
        q \in adapterQuestions(numQuestions)}
    \cup {[questions |-> q,
           calls |-> <<Call("adapter", "generateInterviewQuestions", "threw"),
                      Call("local", "generateInterviewQuestions", "returned")>>] :
             q \in localQuestions(jobTitle, jobDescription)}

\* the shuffles followed for an interview: those that put one of the first
\* MaxCount questions of the pool first
startsInPool(generated, jobTitle, jobDescription) ==
    LET pool == allQuestions(jobTitle, extractKeywords(toLowerCase(jobDescription.s)))
    IN  \E k \in 1..Min(MaxCount, Len(pool)) : generated[1] = pool[k]

\* result.score || null
scoreOrNull(score) == IF score = 0 THEN NullNum ELSE Num(score)

\* the results of the analysis of POST /api/ai/next-question: the adapter's,
\* or when it throws the local feedback with score 0
nextQuestionResults(jobDescription, question, answer, previousQuestions) ==
    {[feedback |-> a.feedback, score |-> a.score,
      calls |-> <<Call("adapter", "analyzeAnswer", "returned")>>] :
        a \in adapterAnalyses}
    \cup {[feedback |-> l.feedback, score |-> 0,
           calls |-> <<Call("adapter", "analyzeAnswer", "threw"),
                      Call("local", "generateNextQuestion", "returned")>>] :
             l \in generateNextQuestion(jobDescription, Str(question), Str(answer),
                                        Arr(previousQuestions))}

\* questions.map(q => ({question, answer: q.answer || "", feedback: q.feedback || ""}))
interviewDataOf(qs) ==
    Arr([i \in 1..Len(qs) |->
            Item(Str(qs[i].question), Str(qs[i].answer), Str(qs[i].feedback))])

\* the draws of Math.random() followed for the report of an interview: one
\* draw, the same for the three category scores
RouteRandoms == {[i \in 1..3 |-> d] : d \in RandomDraws}

\* as completeReports, the local report computed first and the adapter's
\* taken when it does not throw
completeReports_localFirst(title, jobDescription, interviewData) ==
    {[report |-> r,
      calls |-> <<Call("local", "generatePerformanceReport", "returned"),
                 Call("adapter", "generatePerformanceReport", "returned")>>] :
        r \in adapterReports}
    \cup {[report |-> [kind |-> "local", overallScore |-> r.overallScore,
                       questionAnalysis |-> r.questionAnalysis, report |-> r],
           calls |-> <<Call("local", "generatePerformanceReport", "returned"),
                      Call("adapter", "generatePerformanceReport", "threw")>>] :
             r \in {performanceReport(
                        analyzeAnswers(interviewData,
                                       extractKeywords(toLowerCase(jobDescription.s))),
                        extractKeywords(toLowerCase(jobDescription.s)), random) :
                    random \in RouteRandoms}}

\* the reports of POST /api/ai/complete-interview: the adapter's, or when it
\* throws the local ones
completeReports(title, jobDescription, interviewData) ==
    {[report |-> r,
      calls |-> <<Call("adapter", "generatePerformanceReport", "returned")>>] :
        r \in adapterReports}
    \cup {[report |-> [kind |-> "local", overallScore |-> r.overallScore,
                       questionAnalysis |-> r.questionAnalysis, report |-> r],
           calls |-> <<Call("adapter", "generatePerformanceReport", "threw"),
                      Call("local", "generatePerformanceReport", "returned")>>] :
             r \in {performanceReport(
                        analyzeAnswers(interviewData,
                                       extractKeywords(toLowerCase(jobDescription.s))),
                        extractKeywords(toLowerCase(jobDescription.s)), random) :
                    random \in RouteRandoms}}

\* the question records after the updates of complete-interview: the scores
\* and feedbacks of questionAnalysis when the report has one, else the overall
\* score for every question read without a score
completedQuestions(qs, read, report) ==
    IF report.kind = "local"
    THEN [i \in 1..Len(qs) |->
            IF i <= Len(report.questionAnalysis) /\ i <= Len(read)
            THEN [qs[i] EXCEPT !.score = Num(report.questionAnalysis[i].score),
                               !.feedback = report.questionAnalysis[i].feedback.s]
            ELSE qs[i]]
    ELSE [i \in 1..Len(qs) |->
            IF i <= Len(read) /\ IsFalsy(read[i].score)
            THEN [qs[i] EXCEPT !.score = Num(report.overallScore)]
            ELSE qs[i]]

(***************************************************************************)
(* The interview page and the requests in flight.  page.pc is the position *)
(* of the page: ready for a click, awaiting the answer of a request        *)
(* (awaitAnswer, awaitNext), resumed after it (answered, analyzed), or     *)
(* showing the processing screen.                                          *)
(***************************************************************************)
RouteTitle == BackendEngineer

RouteDescription == Str(DescThree)

\* numQuestions of the request body: absent, 1, 2
RequestedCounts == {0, 1, 2}

\* userAnswers[currentQuestion.id] at a click: nothing, or an answer
PageAnswers == {<< >>, <<"A","W","S"," ","a","n","d"," ","D","o","c","k","e","r">>}

\* handler is the handler of the last click
NoPage == [pc |-> "none", index |-> 0, events |-> 0, answer |-> << >>, handler |-> "none"]

AnswerRequest(id, answer, awaited) ==
    [route |-> "answer", questionId |-> id, answer |-> answer, awaited |-> awaited,
     previousQuestions |-> << >>]

NextQuestionRequest(id, answer, previousQuestions) ==
    [route |-> "next-question", questionId |-> id, answer |-> answer, awaited |-> TRUE,
     previousQuestions |-> previousQuestions]

CompleteRequest ==
    [route |-> "complete-interview", questionId |-> 0, answer |-> << >>,
     awaited |-> FALSE, previousQuestions |-> << >>]

\* the request served last: its route, the numQuestions it asked for and the
\* calls the route made
Served(route, numQuestions, calls) ==
    [user |-> "candidate", route |-> route, numQuestions |-> numQuestions,
     calls |-> calls]

\* the interview of another user and its questions, and the number of
\* requests sent to the routes without the page
NoOther == [interview |-> NoInterview, questions |-> << >>, requests |-> 0]

InitRoutes ==
    /\ served = Served("none", 0, << >>)
    /\ other = NoOther
    /\ interview = NoInterview
    /\ questions = << >>
    /\ page = NoPage
    /\ inflight = {}
    /\ reportData = NoResult

\* POST /api/interviews, and the page of the new interview loaded
CreateInterview ==
    /\ interview.status = "none"
    /\ \E numQuestions \in RequestedCounts :
          \E generated \in {g \in routeQuestions(RouteTitle, RouteDescription,
                                                 requestedQuestions(numQuestions)) :
                                startsInPool(g.questions, RouteTitle, RouteDescription)
                                    \/ Len(g.calls) = 1} :
              /\ questions' = [i \in 1..Len(generated.questions) |->
                                  createQuestion(generated.questions[i])]
              /\ served' = Served("interviews", requestedQuestions(numQuestions),
                                  generated.calls)
    /\ interview' = [NoInterview EXCEPT !.status = "pending", !.title = RouteTitle,
                                        !.jobDescription = RouteDescription]
    /\ page' = [NoPage EXCEPT !.pc = "ready"]
    /\ UNCHANGED <<inflight, reportData, other, callVars, hookVars>>

\* a click is possible
CanClick ==
    /\ page.pc = "ready"
    /\ page.events < MaxEvents
    /\ page.index < Len(questions)

IsLastQuestion == page.index >= Len(questions) - 1

\* the tail of handleSkipQuestionBase and of handleCompleteInterview:
\* answerMutation.mutate and then completeInterviewMutation.mutate, neither
\* awaited
SubmitAndComplete(answer, handler) ==
    /\ inflight' = inflight \cup {AnswerRequest(page.index + 1, answer, FALSE),
                                  CompleteRequest}
    /\ page' = [page EXCEPT !.pc = "processing", !.answer = answer,
                            !.handler = handler,
                            !.events = IF page.pc = "ready" THEN @ + 1 ELSE @]

\* handleNextQuestion up to its first await: answerMutation.mutateAsync
HandleNextQuestion ==
    /\ CanClick
    /\ \E answer \in PageAnswers :
          /\ inflight' = inflight \cup {AnswerRequest(page.index + 1, answer, TRUE)}
          /\ page' = [page EXCEPT !.pc = "awaitAnswer", !.answer = answer,
                                  !.handler = "handleNextQuestion",
                                  !.events = @ + 1]
    /\ UNCHANGED <<interview, questions, reportData, served, other, callVars, hookVars>>

\* handleNextQuestion after the answer is stored: on the last question
\* handleCompleteInterview, else nextQuestionMutation.mutateAsync
AfterAnswer ==
    /\ page.pc = "answered"
    /\ IF IsLastQuestion
       THEN SubmitAndComplete(page.answer, page.handler)
       ELSE /\ inflight' = inflight \cup
                   {NextQuestionRequest(page.index + 1, page.answer,
                        [i \in 1..page.index |-> questions[i].question])}
            /\ page' = [page EXCEPT !.pc = "awaitNext"]
    /\ UNCHANGED <<interview, questions, reportData, served, other, callVars, hookVars>>

\* handleNextQuestion after the analysis: the next question becomes current
AfterNextQuestion ==
    /\ page.pc = "analyzed"
    /\ page' = [page EXCEPT !.pc = "ready", !.index = @ + 1, !.answer = << >>]
    /\ UNCHANGED <<interview, questions, inflight, reportData, served, other, callVars, hookVars>>

\* handleSkipQuestion: handleSkipQuestionBase(true)
HandleSkipQuestion ==
    /\ CanClick
    /\ \E answer \in PageAnswers :
          IF ~IsLastQuestion
          THEN /\ inflight' = inflight \cup {AnswerRequest(page.index + 1, answer, FALSE)}
               /\ page' = [page EXCEPT !.index = @ + 1, !.events = @ + 1,
                                       !.handler = "handleSkipQuestion"]
          ELSE SubmitAndComplete(answer, "handleSkipQuestion")
    /\ UNCHANGED <<interview, questions, reportData, served, other, callVars, hookVars>>

\* End Interview: handleCompleteInterview
HandleCompleteInterview ==
    /\ CanClick
    /\ \E answer \in PageAnswers : SubmitAndComplete(answer, "handleCompleteInterview")
    /\ UNCHANGED <<interview, questions, reportData, served, other, callVars, hookVars>>

\* the page after the response to an awaited request
Resumed(request, position) ==
    IF request.awaited THEN [page EXCEPT !.pc = position] ELSE page

\* POST /api/questions/:id/answer
ServeAnswer ==
    \E request \in inflight :
        /\ request.route = "answer"
        /\ request.questionId \in 1..Len(questions)
        /\ interview.status # "none"
        /\ questions' = [questions EXCEPT ![request.questionId].answer = request.answer]
        /\ inflight' = inflight \ {request}
        /\ page' = Resumed(request, "answered")
        /\ served' = Served("answer", 0, << >>)
        /\ UNCHANGED <<interview, reportData, other, callVars, hookVars>>

\* POST /api/ai/next-question
ServeNextQuestion ==
    \E request \in inflight :
        /\ request.route = "next-question"
        /\ request.questionId \in 1..Len(questions)
        /\ interview.status # "none"
        /\ \E analysis \in nextQuestionResults(interview.jobDescription,
                               questions[request.questionId].question,
                               request.answer, request.previousQuestions) :
              /\ questions' = [questions EXCEPT
                                  ![request.questionId].answer = request.answer,
                                  ![request.questionId].feedback = analysis.feedback,
                                  ![request.questionId].score = scoreOrNull(analysis.score)]
              /\ served' = Served("next-question", 0, analysis.calls)
        /\ inflight' = inflight \ {request}
        /\ page' = Resumed(request, "analyzed")
        /\ UNCHANGED <<interview, reportData, other, callVars, hookVars>>

\* POST /api/ai/complete-interview
ServeCompleteInterview ==
    /\ CompleteRequest \in inflight
    /\ interview.status # "none"
    /\ \E interviewData \in {interviewDataOf(questions)} :
          /\ reportData' = interviewData
          /\ \E made \in completeReports(interview.title, interview.jobDescription,
                                         interviewData) :
                /\ interview' = [interview EXCEPT
                                    !.status = "completed",
                                    !.score = Num(made.report.overallScore),
                                    !.feedback = made.report]
                /\ questions' = completedQuestions(questions, questions, made.report)
                /\ served' = Served("complete-interview", 0, made.calls)
    /\ inflight' = inflight \ {CompleteRequest}
    /\ UNCHANGED <<page, other, callVars, hookVars>>

(***************************************************************************)
(* Two users and requests sent to the routes directly.  The candidate owns *)
(* interview 1, the other user interview 2; a question is named by its     *)
(* interview and its place in it.                                          *)
(***************************************************************************)
Users == {"candidate", "other"}

InterviewIds == {1, 2}

\* interview.userId
Owner(id) == IF id = 1 THEN "candidate" ELSE "other"

\* storage.getInterview(id)
InterviewOf(id) == IF id = 1 THEN interview ELSE other.interview

\* storage.getQuestionsByInterviewId(id)
QuestionsOf(id) == IF id = 1 THEN questions ELSE other.questions

\* the answer of a request sent directly
DirectAnswers == {<<"A","W","S"," ","a","n","d"," ","D","o","c","k","e","r">>}

\* the requests of another user come after the candidate's interview exists
CanRequest ==
    /\ interview.status # "none"
    /\ other.requests < MaxRequests

\* the interview id and its questions stored, one request more sent
Stored(id, record, qs) ==
    IF id = 1
    THEN /\ interview' = record
         /\ questions' = qs
         /\ other' = [other EXCEPT !.requests = @ + 1]
    ELSE /\ other' = [interview |-> record, questions |-> qs,
                      requests |-> other.requests + 1]
         /\ UNCHANGED <<interview, questions>>

\* the response 401, 403 or 404: nothing written
Rejected(user, route) ==
    /\ served' = [Served(route, 0, << >>) EXCEPT !.user = user]
    /\ other' = [other EXCEPT !.requests = @ + 1]
    /\ UNCHANGED <<interview, questions>>

\* POST /api/interviews of the other user, one question asked for
OtherCreatesInterview ==
    /\ interview.status # "none"
    /\ other.interview.status = "none"
    /\ \E generated \in {g \in routeQuestions(RouteTitle, RouteDescription, 1) :
                            startsInPool(g.questions, RouteTitle, RouteDescription)
                                \/ Len(g.calls) = 1} :
          /\ other' = [other EXCEPT
                          !.interview = [NoInterview EXCEPT
                                            !.status = "pending", !.title = RouteTitle,
                                            !.jobDescription = RouteDescription],
                          !.questions = [i \in 1..Len(generated.questions) |->
                                            createQuestion(generated.questions[i])]]
          /\ served' = [Served("interviews", 1, generated.calls) EXCEPT !.user = "other"]
    /\ UNCHANGED <<interview, questions, page, inflight, reportData, callVars, hookVars>>

\* POST /api/questions/:id/answer sent by user for the first question of
\* interview id
PostAnswer ==
    /\ CanRequest
    /\ \E user \in Users, id \in InterviewIds, answer \in DirectAnswers :
          /\ Len(QuestionsOf(id)) > 0
          /\ IF InterviewOf(id).status = "none" \/ Owner(id) # user
             THEN Rejected(user, "answer")
             ELSE /\ Stored(id, InterviewOf(id),
                            [QuestionsOf(id) EXCEPT ![1].answer = answer])
                  /\ served' = [Served("answer", 0, << >>) EXCEPT !.user = user]
    /\ UNCHANGED <<page, inflight, reportData, callVars, hookVars>>

\* POST /api/ai/next-question sent by user with interviewId and, as
\* currentQuestionId, the first question of interview id
PostNextQuestion ==
    /\ CanRequest
    /\ \E user \in Users, interviewId \in InterviewIds, id \in InterviewIds,
          answer \in DirectAnswers :
          IF InterviewOf(interviewId).status = "none" \/ Owner(interviewId) # user
             \/ Len(QuestionsOf(id)) = 0
          THEN Rejected(user, "next-question")
          ELSE \E analysis \in nextQuestionResults(
                                   InterviewOf(interviewId).jobDescription,
                                   QuestionsOf(id)[1].question, answer, << >>) :
                  /\ Stored(id, InterviewOf(id),
                            [QuestionsOf(id) EXCEPT
                                ![1].answer = answer,
                                ![1].feedback = analysis.feedback,
                                ![1].score = scoreOrNull(analysis.score)])
                  /\ served' = [Served("next-question", 0, analysis.calls)
                                    EXCEPT !.user = user]
    /\ UNCHANGED <<page, inflight, reportData, callVars, hookVars>>

\* POST /api/ai/complete-interview sent by user with interviewId
PostCompleteInterview ==
    /\ CanRequest
    /\ \E user \in Users, interviewId \in InterviewIds :
          IF InterviewOf(interviewId).status = "none" \/ Owner(interviewId) # user
          THEN Rejected(user, "complete-interview") /\ UNCHANGED reportData
          ELSE LET record == InterviewOf(interviewId)
                   read == QuestionsOf(interviewId)
               IN  \E made \in completeReports(record.title, record.jobDescription,
                                                interviewDataOf(read)) :
                      /\ Stored(interviewId,
                                [record EXCEPT !.status = "completed",
                                               !.score = Num(made.report.overallScore),
                                               !.feedback = made.report],
                                completedQuestions(read, read, made.report))
                      /\ served' = [Served("complete-interview", 0, made.calls)
                                        EXCEPT !.user = user]
                      /\ reportData' = interviewDataOf(read)
    /\ UNCHANGED <<page, inflight, callVars, hookVars>>

(***************************************************************************)
(* The speaking of the questions on the interview page: the effect that    *)
(* speaks the current question, speak of useTTS, the request to            *)
(* /api/tts/generate and the utterance of the browser.  A question is      *)
(* named by its place, time is counted in ticks of the clock.              *)
(***************************************************************************)
\* the milliseconds of a tick of Date.now()
TickMs == 500

\* now - lastSpeakTime < 1000
SpeakGapMs == 1000

InitSpeech ==
    speech = [loaded |-> FALSE, index |-> 0, hasSpoken |-> 0, questionId |-> 0,
              lastSpeakTime |-> 0, now |-> SpeakGapMs \div TickMs,
              isSpeaking |-> FALSE, requests |-> {}, utterance |-> 0,
              spoken |-> [q \in 1..MaxQuestions |-> 0]]

\* stop of useTTS: speechSynthesis.cancel() and setIsSpeaking(false)
stopSpeaking(sp) == [sp EXCEPT !.utterance = 0, !.isSpeaking = FALSE]

\* speak of useTTS up to its await: the request is dropped while speaking and
\* within a second of the last one, else sent to /api/tts/generate
speak(sp, id) ==
    IF sp.isSpeaking THEN sp
    ELSE IF (sp.now - sp.lastSpeakTime) * TickMs < SpeakGapMs THEN sp
    ELSE [stopSpeaking(sp) EXCEPT !.lastSpeakTime = sp.now,
                                  !.requests = @ \cup {id}]

\* speakQuestionOnce: a question other than the one of speechRef is spoken
speakQuestionOnce(sp, id) ==
    IF sp.questionId # id
    THEN speak(stopSpeaking([sp EXCEPT !.questionId = id]), id)
    ELSE sp

\* the effect on currentQuestion.id: a question hasSpokenRef does not name
\* is marked as spoken and handed to speakQuestionOnce
speakEffect(sp) ==
    IF ~sp.loaded \/ sp.index >= MaxQuestions THEN sp
    ELSE IF sp.hasSpoken # sp.index + 1
    THEN speakQuestionOnce([sp EXCEPT !.hasSpoken = sp.index + 1], sp.index + 1)
    ELSE sp

\* the questions of the interview arrive: the first one is current
QuestionsLoaded ==
    /\ ~speech.loaded
    /\ speech' = speakEffect([speech EXCEPT !.loaded = TRUE])
    /\ UNCHANGED <<callVars, routeVars, recognition>>

\* handleSkipQuestionBase on a question that is not the last: stopSpeaking
\* and the next question current
SkipToNext ==
    /\ speech.loaded
    /\ speech.index < MaxQuestions - 1
    /\ speech' = speakEffect([stopSpeaking(speech) EXCEPT !.index = @ + 1])
    /\ UNCHANGED <<callVars, routeVars, recognition>>

\* the clock advances and the elapsed-time timer renders the page again
Tick ==
    /\ speech.now < MaxTicks
    /\ speech' = speakEffect([speech EXCEPT !.now = @ + 1])
    /\ UNCHANGED <<callVars, routeVars, recognition>>

\* speak after its await, the server having answered or failed:
\* speakWithBrowser cancels the utterance and speaks the text
TtsResponds ==
    /\ \E id \in speech.requests :
          speech' = [speech EXCEPT !.requests = @ \ {id},
                                   !.utterance = id,
                                   !.isSpeaking = FALSE,
                                   !.spoken[id] = @ + 1]
    /\ UNCHANGED <<callVars, routeVars, recognition>>

\* utterance.onstart
UtteranceStarts ==
    /\ speech.utterance # 0
    /\ ~speech.isSpeaking
    /\ speech' = [speech EXCEPT !.isSpeaking = TRUE]
    /\ UNCHANGED <<callVars, routeVars, recognition>>

\* utterance.onend
UtteranceEnds ==
    /\ speech.utterance # 0
    /\ speech.isSpeaking
    /\ speech' = [speech EXCEPT !.isSpeaking = FALSE, !.utterance = 0]
    /\ UNCHANGED <<callVars, routeVars, recognition>>

NextSpeech ==
    \/ QuestionsLoaded
    \/ SkipToNext
    \/ Tick
    \/ TtsResponds
    \/ UtteranceStarts
    \/ UtteranceEnds

(***************************************************************************)
(* The speech-recognition hook: start and stop of the user, the events of  *)
(* the recognition instance and the timers of the hook.  timeoutRef and    *)
(* restartTimeoutRef hold the timer set last: a timer is tracked while     *)
(* its ref holds it, and runs on when the ref is overwritten.              *)
(***************************************************************************)
InitRecognition ==
    recognition = [instance |-> "none", isListening |-> FALSE,
                   closureListening |-> FALSE, userStop |-> FALSE,
                   timers |-> {}, stopped |-> FALSE, startedSinceStop |-> FALSE]

Timer(kind, tracked) == [kind |-> kind, tracked |-> tracked]

\* clearTimeouts: the timers the two refs hold are cleared
clearTimeouts(r) == [r EXCEPT !.timers = {t \in @ : ~t.tracked}]

\* restartTimeoutRef.current = setTimeout(...): the timer the ref held is
\* no longer tracked
setRestartTimeout(r, kind) ==
    [r EXCEPT !.timers =
        {IF t.kind # "silence" THEN Timer(t.kind, FALSE) ELSE t : t \in @}
            \cup {Timer(kind, TRUE)}]

\* setupSilenceDetection, isListening being the value its closure captured
setupSilenceDetection(r) ==
    IF r.closureListening
    THEN [clearTimeouts(r) EXCEPT !.timers = @ \cup {Timer("silence", TRUE)}]
    ELSE clearTimeouts(r)

\* createAndStartRecognition: the handlers of the old instance removed, a new
\* instance started
createAndStartRecognition(r) ==
    setupSilenceDetection([r EXCEPT !.instance = "active", !.isListening = TRUE,
                                    !.startedSinceStop = TRUE])

\* start of the hook, the callbacks being those of the current render
StartListening ==
    /\ recognition' = createAndStartRecognition(
                          [recognition EXCEPT !.userStop = FALSE, !.stopped = FALSE,
                                              !.closureListening = recognition.isListening])
    /\ UNCHANGED <<callVars, routeVars, speech>>

\* stop of the hook
StopListening ==
    /\ ~recognition.stopped
    /\ recognition.instance # "none"
    /\ recognition' = [clearTimeouts(recognition) EXCEPT
                          !.userStop = TRUE,
                          !.instance = IF @ = "active" THEN "stopping" ELSE @,
                          !.isListening = FALSE,
                          !.stopped = TRUE, !.startedSinceStop = FALSE]
    /\ UNCHANGED <<callVars, routeVars, speech>>

\* onresult, also of the results delivered after stop()
OnResult ==
    /\ recognition.instance \in {"active", "stopping"}
    /\ recognition' = setupSilenceDetection(recognition)
    /\ UNCHANGED <<callVars, routeVars, speech>>

\* onerror with no-speech: the end event follows
OnNoSpeech ==
    /\ recognition.instance = "active"
    /\ recognition' = [setupSilenceDetection(recognition) EXCEPT !.instance = "ending"]
    /\ UNCHANGED <<callVars, routeVars, speech>>

\* onerror with network or service-not-allowed: a restart in 1000 ms, the
\* end event follows
OnNetworkError ==
    /\ recognition.instance = "active"
    /\ recognition' = [setRestartTimeout(recognition, "errorRestart") EXCEPT
                          !.instance = "ending"]
    /\ UNCHANGED <<callVars, routeVars, speech>>

\* onend
OnEnd ==
    /\ recognition.instance \in {"active", "stopping", "ending"}
    /\ recognition' =
          [(IF ~recognition.userStop
            THEN setRestartTimeout(recognition, "endRestart")
            ELSE clearTimeouts(recognition)) EXCEPT
              !.isListening = FALSE, !.userStop = FALSE, !.instance = "ended"]
    /\ UNCHANGED <<callVars, routeVars, speech>>

\* the silence timer: abort() and a restart in 500 ms
SilenceTimerFires ==
    /\ Timer("silence", TRUE) \in recognition.timers
    /\ recognition' =
          [setRestartTimeout(
               [recognition EXCEPT !.timers = @ \ {Timer("silence", TRUE)}],
               "silenceRestart") EXCEPT
              !.instance = IF @ \in {"active", "stopping"} THEN "ending" ELSE @]
    /\ UNCHANGED <<callVars, routeVars, speech>>

\* the restart timer of the silence timer or of onerror: a new instance
\* unless the user stopped
CheckedRestartFires ==
    /\ \E t \in recognition.timers :
          /\ t.kind \in {"silenceRestart", "errorRestart"}
          /\ LET r == [recognition EXCEPT !.timers = @ \ {t}]
             IN  recognition' = IF ~r.userStop THEN createAndStartRecognition(r) ELSE r
    /\ UNCHANGED <<callVars, routeVars, speech>>

\* the restart timer of onend: a new instance
EndRestartFires ==
    /\ \E t \in recognition.timers :
          /\ t.kind = "endRestart"
          /\ recognition' = createAndStartRecognition(
                                [recognition EXCEPT !.timers = @ \ {t}])
    /\ UNCHANGED <<callVars, routeVars, speech>>

NextRecognition ==
    \/ StartListening
    \/ StopListening
    \/ OnResult
    \/ OnNoSpeech
    \/ OnNetworkError
    \/ OnEnd
    \/ SilenceTimerFires
    \/ CheckedRestartFires
    \/ EndRestartFires

NextCalls ==
    \/ ExtractKeywords
    \/ GenerateInterviewQuestions
    \/ GenerateNextQuestion
    \/ ContinueSession
    \/ AnalyzeAnswers
    \/ GeneratePerformanceReport
    \/ RepeatPerformanceReport

NextRoutes ==
    \/ CreateInterview
    \/ HandleNextQuestion
    \/ AfterAnswer
    \/ AfterNextQuestion
    \/ HandleSkipQuestion
    \/ HandleCompleteInterview
    \/ ServeAnswer
    \/ ServeNextQuestion
    \/ ServeCompleteInterview

Init ==
    /\ InitCalls
    /\ InitRoutes
    /\ InitSpeech
    /\ InitRecognition

Next == NextCalls

\* the engine, called function by function
Spec == Init /\ [][Next]_vars

\* one interview, from its creation to its report
SpecRoutes == Init /\ [][NextRoutes]_vars

NextRequests ==
    \/ CreateInterview
    \/ OtherCreatesInterview
    \/ PostAnswer
    \/ PostNextQuestion
    \/ PostCompleteInterview

\* two users, each with an interview, and their requests to the routes
SpecRequests == Init /\ [][NextRequests]_vars


\* the questions of an interview spoken by the page
SpecSpeech == Init /\ [][NextSpeech]_vars

\* the speech-recognition hook and the events of the browser
SpecRecognition == Init /\ [][NextRecognition]_vars
(***************************************************************************)
(* Properties.                                                             *)
(***************************************************************************)
Reported == pc = "done" /\ op = "generatePerformanceReport"

\* a report returned by the try block, not by the catch block
NormalReport == Reported /\ outcome = "returned" /\ ~caught

Analyzed == pc = "done" /\ op = "analyzeAnswers" /\ outcome = "returned"

Extracted == pc = "done" /\ op = "extractKeywords"

EmptyData == Arr(<< >>)

\* C1: generatePerformanceReport called with an empty interviewData does not
\* raise and returns the fixed fallback report: overallScore 70, technical 68,
\* communication 75, problemSolving 65.
C1_EmptyDataGivesFallback ==
    (Reported /\ args.interviewData = EmptyData) =>
        /\ outcome = "returned"
        /\ result.overallScore = 70
        /\ result.technicalScore = 68
        /\ result.communicationScore = 75
        /\ result.problemSolvingScore = 65
        /\ result = generateFallbackReport(EmptyData)

\* C2: none of generateInterviewQuestions, generateNextQuestion and
\* generatePerformanceReport ever raises to its caller, malformed input
\* included: every call returns.
C2_NeverRaises ==
    (pc = "done" /\ op \in {"generateInterviewQuestions", "generateNextQuestion",
                            "generatePerformanceReport"})
        => outcome = "returned"

\* C3: every per-question score computed by analyzeAnswers is an integer from
\* 0 to 100.
C3_ScoreInRange ==
    Analyzed => \A i \in 1..Len(result) : result[i].score \in 0..100

\* the empty answer, scored 55
C3_Witness ==
    /\ Analyzed
    /\ Len(result) = 1
    /\ args.interviewData.items[1].answer = Str(<< >>)
    /\ result[1].score = 55

\* the job keywords that occur in the lower-cased answer
Mentioned(answer, jobKeywords) ==
    {k \in Range(jobKeywords) : includes(toLowerCase(answer), k)}

KeywordBand(m) ==
    CASE m > 3 -> 15
      [] m \in {2, 3} -> 10
      [] m = 1 -> 5
      [] m = 0 -> 0

LengthBand(w) ==
    CASE w > 150 -> 10
      [] w > 100 /\ w <= 150 -> 5
      [] w < 20 -> 0 - 15
      [] w >= 20 /\ w < 50 -> 0 - 5
      [] w >= 50 /\ w <= 100 -> 0

Clamp(x, lo, hi) == IF x < lo THEN lo ELSE IF x > hi THEN hi ELSE x

\* C4: the score of an answer is clamp(70 + K + L, 0, 100), K the bonus of the
\* band of the number of distinct job keywords occurring in the lower-cased
\* answer (more than 3: 15; 2 or 3: 10; 1: 5; none: 0) and L the bonus of the
\* band of its word count (above 150: 10; 101 to 150: 5; below 20: -15; 20 to
\* 49: -5; 50 to 100: 0).
C4_ScoreFormula ==
    Analyzed =>
        \A i \in 1..Len(result) :
            LET answer == args.interviewData.items[i].answer.s
            IN  result[i].score =
                    Clamp(70 + KeywordBand(Cardinality(Mentioned(answer, args.jobKeywords)))
                             + LengthBand(splitLength(toLowerCase(answer))),
                          0, 100)

\* four keywords in more than 150 words give 95
C4_Witness ==
    /\ Analyzed
    /\ Len(result) = 1
    /\ Cardinality(Mentioned(args.interviewData.items[1].answer.s, args.jobKeywords)) = 4
    /\ splitLength(args.interviewData.items[1].answer.s) > 150
    /\ result[1].score = 95

\* C5: every report generatePerformanceReport returns, by the try block or by
\* the catch block, from empty interviewData or not, lists at least 3
\* strengths, 3 improvements and 3 recommendations.
C5_ListsOfThree ==
    (Reported /\ outcome = "returned") =>
        /\ Len(result.strengths) >= 3
        /\ Len(result.improvements) >= 3
        /\ Len(result.recommendations) >= 3

\* a report of the try block whose strengths are one found and two generic
C5_Witness ==
    /\ NormalReport
    /\ Len(result.strengths) = 3
    /\ result.strengths[2] = genericStrengths[1]
    /\ result.strengths[3] = genericStrengths[2]
    /\ Len(result.improvements) >= 3

VocabularyIndex(k) == CHOOSE i \in 1..Len(commonKeywords) : commonKeywords[i] = k

\* C6: extractKeywords returns at least 3 terms: the vocabulary terms occurring
\* in the description, in vocabulary order, followed, if they are fewer than 3,
\* by experience, skills, projects, challenges (at least 4 terms then).
C6_FoundThenGeneric ==
    Extracted =>
        LET found == {k \in Range(commonKeywords) : includes(args.description, k)}
            m == Cardinality(found)
        IN  /\ Len(result) >= 3
            /\ Len(result) >= m
            /\ {result[i] : i \in 1..m} = found
            /\ \A i, j \in 1..m :
                  i < j => VocabularyIndex(result[i]) < VocabularyIndex(result[j])
            /\ IF m < 3
               THEN /\ SubSeq(result, m + 1, Len(result)) =
                         << <<"e","x","p","e","r","i","e","n","c","e">>,
                            <<"s","k","i","l","l","s">>,
                            <<"p","r","o","j","e","c","t","s">>,
                            <<"c","h","a","l","l","e","n","g","e","s">> >>
                    /\ Len(result) >= 4
               ELSE Len(result) = m

\* two terms found and the four generic ones pushed
C6_Witness ==
    /\ Extracted
    /\ Len(result) = 6
    /\ result[1] = <<"r","e","a","c","t">>
    /\ result[2] = <<"n","o","d","e">>

\* C7, as claimed: extractKeywords returns at least 4 terms.
C7_AtLeastFour == Extracted => Len(result) >= 4

\* C7, amended: extractKeywords returns at least 3 terms.
C7_AtLeastThree == Extracted => Len(result) >= 3

\* exactly three vocabulary terms found, and nothing pushed
C7_Witness ==
    /\ Extracted
    /\ Len(result) = 3
    /\ \A i \in 1..3 : result[i] \in Range(commonKeywords)

Occurrences(seq, x) == Cardinality({i \in 1..Len(seq) : seq[i] = x})

\* the pool of a call: keywords x 5 technical templates, the 10 behavioral
\* prompts, the 5 title templates
PoolOf(a) == allQuestions(a.jobTitle, extractKeywords(toLowerCase(a.jobDescription.s)))

Synthesized == pc = "done" /\ op = "generateInterviewQuestions" /\ ~caught

\* C8: for 0 <= count <= 5 * |keywords| + 15 the question synthesizer returns
\* exactly count strings, each an element of the pool, none more often than
\* the pool holds it.
C8_PrefixOfPermutation ==
    Synthesized =>
        LET keywords == extractKeywords(toLowerCase(args.jobDescription.s))
            pool == allQuestions(args.jobTitle, keywords)
        IN  args.numQuestions <= Len(pool) =>
                /\ Len(pool) = 5 * Len(keywords) + 15
                /\ Len(result) = args.numQuestions
                /\ \A i \in 1..Len(result) :
                      /\ \E j \in 1..Len(pool) : pool[j] = result[i]
                      /\ Occurrences(result, result[i]) <= Occurrences(pool, result[i])

\* two questions returned, the second of them before the first in the pool
C8_Witness ==
    /\ Synthesized
    /\ args.numQuestions = 2
    /\ Len(result) = 2
    /\ LET pool == PoolOf(args)
       IN  result[1] = pool[Len(pool)] /\ result[2] = pool[1]

\* C9: overallScore and the per-question scores do not depend on the feedback
\* fields: a second call whose interviewData differs from the first call's in
\* the feedback fields only returns the same overallScore and the same
\* per-question scores, whatever the random draws.
C9_FeedbackIgnored ==
    (first.called /\ Reported) =>
        /\ outcome = "returned"
        /\ result.overallScore = first.overallScore
        /\ [i \in 1..Len(result.questionAnalysis) |-> result.questionAnalysis[i].score]
               = first.scores

\* the second call was fed the first call's feedback, and its category scores
\* are not those of an unvaried overall score
C9_Witness ==
    /\ first.called
    /\ NormalReport
    /\ Len(args.interviewData.items) = 2
    /\ \A i \in 1..2 :
          /\ first.interviewData.items[i].feedback = Undefined
          /\ args.interviewData.items[i].feedback
                 = Str(scoreFeedback(first.scores[i]))
    /\ result.technicalScore # result.overallScore

RECURSIVE Total(_)
Total(scores) == IF scores = << >> THEN 0 ELSE Head(scores) + Total(Tail(scores))

ScoresOf(questionAnalysis) ==
    [i \in 1..Len(questionAnalysis) |-> questionAnalysis[i].score]

\* C10: on the try block's path and for non-empty interviewData, overallScore
\* is the mean of the per-question scores rounded to the nearest integer, and
\* lies between the smallest and the largest of them.
C10_OverallIsRoundedMean ==
    (NormalReport /\ Len(args.interviewData.items) > 0) =>
        LET scores == ScoresOf(result.questionAnalysis)
            n == Len(scores)
            diff == 2 * (n * result.overallScore - Total(scores))
        IN  /\ n = Len(args.interviewData.items)
            /\ diff <= n
            /\ 0 - diff <= n
            /\ \E i \in 1..n : scores[i] <= result.overallScore
            /\ \E i \in 1..n : scores[i] >= result.overallScore

\* two scores whose mean is no integer: 55 and 70 give 63
C10_Witness ==
    /\ NormalReport
    /\ ScoresOf(result.questionAnalysis) = <<55, 70>>
    /\ result.overallScore = 63

\* Math.round(overall * tenths / 10), halves up
RoundTenths(overall, tenths) == (2 * overall * tenths + 10) \div 20

\* C11: for non-empty interviewData on the try block's path, technicalScore and
\* communicationScore lie between round(0.9 * overall) and
\* min(100, round(1.1 * overall)), problemSolvingScore between
\* round(0.8 * overall) and overall, and all three lie in 0..100, whatever the
\* random draws.
C11_CategoryScoresInBand ==
    (NormalReport /\ Len(args.interviewData.items) > 0) =>
        LET overall == result.overallScore
        IN  /\ result.technicalScore
                   \in RoundTenths(overall, 9)..Min(100, RoundTenths(overall, 11))
            /\ result.communicationScore
                   \in RoundTenths(overall, 9)..Min(100, RoundTenths(overall, 11))
            /\ result.problemSolvingScore \in RoundTenths(overall, 8)..overall
            /\ {result.technicalScore, result.communicationScore,
                result.problemSolvingScore} \subseteq 0..100

\* an overall score of 95 whose technical score is cut to 100 and whose
\* problem-solving score is the least one
C11_Witness ==
    /\ NormalReport
    /\ result.overallScore = 95
    /\ result.technicalScore = 100
    /\ result.communicationScore = 86
    /\ result.problemSolvingScore = 76

TierFeedback(score) ==
    CASE score >= 90 -> <<"E","x","c","e","l","l","e","n","t"," ","a","n","s","w","e","r"," ","w","i","t","h"," ","s",
                          "p","e","c","i","f","i","c"," ","d","e","t","a","i","l","s"," ","a",
                          "n","d"," ","r","e","l","e","v","a","n","t"," ","s","k","i","l","l",
                          "s",".">>
      [] score >= 80 /\ score < 90 ->
           <<"S","t","r","o","n","g"," ","a","n","s","w","e","r"," ","d","e","m","o","n","s","t","r","a",
             "t","i","n","g"," ","g","o","o","d"," ","k","n","o","w","l","e","d","g","e"," ",
             "a","n","d"," ","e","x","p","e","r","i","e","n","c","e",".">>
      [] score >= 70 /\ score < 80 ->
           <<"G","o","o","d"," ","a","n","s","w","e","r"," ","w","i","t","h"," ","s","o","m","e"," ","r",
             "e","l","e","v","a","n","t"," ","p","o","i","n","t","s",","," ","b","u","t"," ",
             "c","o","u","l","d"," ","i","n","c","l","u","d","e"," ","m","o","r","e"," ","s",
             "p","e","c","i","f","i","c"," ","e","x","a","m","p","l","e","s",".">>
      [] score >= 60 /\ score < 70 ->
           <<"A","d","e","q","u","a","t","e"," ","a","n","s","w","e","r",","," ","b","u","t"," ","l","a",
             "c","k","s"," ","d","e","p","t","h"," ","a","n","d"," ","c","o","n","c","r","e",
             "t","e"," ","e","x","a","m","p","l","e","s",".">>
      [] score < 60 ->
           <<"A","n","s","w","e","r"," ","n","e","e","d","s"," ","i","m","p","r","o","v","e","m","e","n",
             "t"," ","-"," ","p","r","o","v","i","d","e"," ","m","o","r","e"," ","d","e","t",
             "a","i","l","s"," ","a","n","d"," ","s","p","e","c","i","f","i","c"," ","e","x",
             "a","m","p","l","e","s",".">>

\* C12: whatever the job keywords, the answer "" is scored 55 and gets the
\* feedback "Answer needs improvement - provide more details and specific
\* examples."; the feedback of every answer is the sentence of the tier of its
\* score (>= 90, >= 80, >= 70, >= 60, below).
C12_EmptyAnswerAndTiers ==
    Analyzed =>
        \A i \in 1..Len(result) :
            /\ args.interviewData.items[i].answer = Str(<< >>) =>
                  /\ result[i].score = 55
                  /\ result[i].feedback =
                       Str(<<"A","n","s","w","e","r"," ","n","e","e","d","s"," ","i","m","p","r","o","v","e","m","e","n",
                             "t"," ","-"," ","p","r","o","v","i","d","e"," ","m","o","r","e",
                             " ","d","e","t","a","i","l","s"," ","a","n","d"," ","s","p","e",
                             "c","i","f","i","c"," ","e","x","a","m","p","l","e","s",".">>)
            /\ result[i].feedback = Str(TierFeedback(result[i].score))

\* the empty answer against the five keywords of a description
C12_Witness ==
    /\ Analyzed
    /\ Len(args.jobKeywords) = 5
    /\ Len(result) = 1
    /\ args.interviewData.items[1].answer = Str(<< >>)
    /\ result[1].score = 55
    /\ result[1].feedback = Str(TierFeedback(55))

\* C13: when generatePerformanceReport takes its catch block, it returns the
\* fixed fallback report: scores 70, 68, 75, 65, the three constant strengths,
\* improvements and recommendations, and for every entry of interviewData its
\* question, the score 70 and the entry's own feedback if that is non-empty,
\* else "Good answer that could be more detailed.".
C13_CatchGivesFallback ==
    (Reported /\ caught) =>
        /\ outcome = "returned"
        /\ result.overallScore = 70
        /\ result.technicalScore = 68
        /\ result.communicationScore = 75
        /\ result.problemSolvingScore = 65
        /\ result.strengths = <<
             <<"G","o","o","d"," ","c","o","m","m","u","n","i","c","a","t","i","o","n"," ","s","k","i","l",
               "l","s">>,
             <<"D","e","m","o","n","s","t","r","a","t","e","s"," ","t","e","c","h","n","i","c","a","l"," ",
               "k","n","o","w","l","e","d","g","e">>,
             <<"S","h","o","w","s"," ","e","n","t","h","u","s","i","a","s","m"," ","f","o","r"," ","t","h",
               "e"," ","r","o","l","e">> >>
        /\ result.improvements = <<
             <<"C","o","u","l","d"," ","p","r","o","v","i","d","e"," ","m","o","r","e"," ","s","p","e","c",
               "i","f","i","c"," ","e","x","a","m","p","l","e","s">>,
             <<"M","o","r","e"," ","d","e","t","a","i","l","e","d"," ","t","e","c","h","n","i","c","a","l",
               " ","a","n","s","w","e","r","s"," ","n","e","e","d","e","d">>,
             <<"C","o","u","l","d"," ","s","t","r","u","c","t","u","r","e"," ","a","n","s","w","e","r","s",
               " ","m","o","r","e"," ","c","l","e","a","r","l","y">> >>
        /\ result.recommendations = <<
             <<"P","r","a","c","t","i","c","e"," ","s","t","r","u","c","t","u","r","e","d"," ","a","n","s",
               "w","e","r","i","n","g"," ","t","e","c","h","n","i","q","u","e","s">>,
             <<"P","r","e","p","a","r","e"," ","m","o","r","e"," ","c","o","n","c","r","e","t","e"," ","e",
               "x","a","m","p","l","e","s">>,
             <<"R","e","s","e","a","r","c","h"," ","c","o","m","p","a","n","y","-","s","p","e","c","i","f",
               "i","c"," ","i","n","f","o","r","m","a","t","i","o","n">> >>
        /\ Len(result.questionAnalysis) = Len(args.interviewData.items)
        /\ \A i \in 1..Len(result.questionAnalysis) :
              LET item == args.interviewData.items[i]
              IN  /\ result.questionAnalysis[i].question = item.question
                  /\ result.questionAnalysis[i].score = 70
                  /\ result.questionAnalysis[i].feedback =
                       IF IsString(item.feedback) /\ Len(item.feedback.s) > 0
                       THEN item.feedback
                       ELSE Str(<<"G","o","o","d"," ","a","n","s","w","e","r"," ","t","h","a","t"," ","c","o","u","l","d"," ",
                                  "b","e"," ","m","o","r","e"," ","d","e","t","a","i","l","e",
                                  "d",".">>)

\* the recommendation the table or the template gives for an improvement
Recommended(improvement) ==
    LET entries == {e \in Range(recommendationMap) : e[1] = improvement}
    IN  IF entries # {}
        THEN {e[2] : e \in entries}
        ELSE {<<"T","o"," ","a","d","d","r","e","s","s"," ","\"">> \o toLowerCase(improvement)
                  \o <<"\"",","," ","p","r","a","c","t","i","c","e"," ","w","i","t","h"," ","a"," ","f","r","i","e",
                       "n","d"," ","o","r"," ","c","a","r","e","e","r"," ","c","o","u","n","s",
                       "e","l","o","r">>}

\* C16: in a report of the try block, recommendations[i] is the entry of the
\* recommendation table under improvements[i], or the templated sentence
\* quoting the lower-cased improvement where there is none; generic
\* recommendations follow only where fewer than 3 result.
C16_RecommendationsFollowImprovements ==
    NormalReport =>
        LET n == Len(result.improvements)
        IN  /\ Len(result.recommendations) = Max(n, 3)
            /\ \A i \in 1..n :
                  result.recommendations[i] \in Recommended(result.improvements[i])
            /\ \A i \in (n + 1)..Len(result.recommendations) :
                  result.recommendations[i] = genericRecommendations[i - n]

\* four improvements found, the first and the last of them with their entries
C16_Witness ==
    /\ NormalReport
    /\ Len(result.improvements) = 4
    /\ Len(result.recommendations) = 4
    /\ result.improvements[1] = recommendationMap[1][1]
    /\ result.recommendations[1] = recommendationMap[1][2]
    /\ result.improvements[4] = recommendationMap[4][1]
    /\ result.recommendations[4] = recommendationMap[4][2]

\* the sequence of the texts whose flag is set, in their order
Flagged(flags, texts) ==
    LET set == {i \in 1..Len(flags) : flags[i]}
    IN  [k \in 1..Cardinality(set) |->
            texts[CHOOSE i \in set : Cardinality({j \in set : j <= i}) = k]]

\* list, and the first elements of pool as far as needed for 3
PaddedToThree(list, pool) ==
    IF Len(list) >= 3 THEN list ELSE list \o SubSeq(pool, 1, 3 - Len(list))

\* C17: in a report of the try block, strengths is the 'detailed and relevant
\* answers' string if some question score is >= 80, then the technical,
\* communication and problem-solving strength strings for each category score
\* >= 75, in that order, then generic strengths in pool order as far as needed
\* to reach length 3.
C17_StrengthsByRule ==
    NormalReport =>
        result.strengths =
            PaddedToThree(
                Flagged(<< \E i \in 1..Len(result.questionAnalysis) :
                               result.questionAnalysis[i].score >= 80,
                           AtLeast(result.technicalScore, 75),
                           AtLeast(result.communicationScore, 75),
                           AtLeast(result.problemSolvingScore, 75) >>,
                        << <<"P","r","o","v","i","d","e","d"," ","d","e","t","a","i","l","e","d"," ","a","n","d"," ","r",
                             "e","l","e","v","a","n","t"," ","a","n","s","w","e","r","s"," ",
                             "t","o"," ","m","u","l","t","i","p","l","e"," ","q","u","e","s",
                             "t","i","o","n","s">>,
                           <<"D","e","m","o","n","s","t","r","a","t","e","d"," ","g","o","o","d"," ","t","e","c","h","n",
                             "i","c","a","l"," ","k","n","o","w","l","e","d","g","e"," ","r",
                             "e","l","e","v","a","n","t"," ","t","o"," ","t","h","e"," ","p",
                             "o","s","i","t","i","o","n">>,
                           <<"C","o","m","m","u","n","i","c","a","t","e","d"," ","i","d","e","a","s"," ","c","l","e","a",
                             "r","l","y"," ","a","n","d"," ","e","f","f","e","c","t","i","v",
                             "e","l","y">>,
                           <<"S","h","o","w","e","d"," ","s","t","r","o","n","g"," ","p","r","o","b","l","e","m","-","s",
                             "o","l","v","i","n","g"," ","a","b","i","l","i","t","i","e","s">> >>),
                << <<"S","h","o","w","e","d"," ","e","n","t","h","u","s","i","a","s","m"," ","f","o","r"," ","t",
                     "h","e"," ","r","o","l","e">>,
                   <<"A","r","t","i","c","u","l","a","t","e","d"," ","p","a","s","t"," ","e","x","p","e","r","i",
                     "e","n","c","e","s"," ","w","e","l","l">>,
                   <<"D","e","m","o","n","s","t","r","a","t","e","d"," ","a"," ","p","o","s","i","t","i","v","e",
                     " ","a","t","t","i","t","u","d","e">>,
                   <<"P","r","e","s","e","n","t","e","d"," ","p","r","o","f","e","s","s","i","o","n","a","l"," ",
                     "d","e","m","e","a","n","o","r"," ","d","u","r","i","n","g"," ","t","h",
                     "e"," ","i","n","t","e","r","v","i","e","w">> >>)

\* a question of 80 whose technical score only reaches 75: two strengths found
\* and one generic
C17_Witness ==
    /\ NormalReport
    /\ result.overallScore = 80
    /\ result.technicalScore >= 75
    /\ result.communicationScore < 75
    /\ result.problemSolvingScore < 75
    /\ Len(result.strengths) = 3
    /\ result.strengths[3] = genericStrengths[1]

\* C18: in a report of the try block, improvements is the 'more detailed
\* responses' string if some question score is <= 65, then the technical,
\* communication and problem-solving improvement strings for each category
\* score < 75, in that order, then generic improvements in pool order as far as
\* needed to reach length 3.
C18_ImprovementsByRule ==
    NormalReport =>
        result.improvements =
            PaddedToThree(
                Flagged(<< \E i \in 1..Len(result.questionAnalysis) :
                               result.questionAnalysis[i].score <= 65,
                           Below(result.technicalScore, 75),
                           Below(result.communicationScore, 75),
                           Below(result.problemSolvingScore, 75) >>,
                        << <<"P","r","o","v","i","d","e"," ","m","o","r","e"," ","d","e","t","a","i","l","e","d"," ","r",
                             "e","s","p","o","n","s","e","s"," ","w","i","t","h"," ","s","p",
                             "e","c","i","f","i","c"," ","e","x","a","m","p","l","e","s">>,
                           <<"H","i","g","h","l","i","g","h","t"," ","t","e","c","h","n","i","c","a","l"," ","s","k","i",
                             "l","l","s"," ","m","o","r","e"," ","c","l","e","a","r","l","y",
                             " ","i","n"," ","a","n","s","w","e","r","s">>,
                           <<"S","t","r","u","c","t","u","r","e"," ","a","n","s","w","e","r","s"," ","m","o","r","e"," ",
                             "c","l","e","a","r","l","y"," ","w","i","t","h"," ","a"," ","b",
                             "e","g","i","n","n","i","n","g",","," ","m","i","d","d","l","e",
                             ","," ","a","n","d"," ","c","o","n","c","l","u","s","i","o","n">>,
                           <<"I","n","c","l","u","d","e"," ","m","o","r","e"," ","e","x","a","m","p","l","e","s"," ","o",
                             "f"," ","p","r","o","b","l","e","m","-","s","o","l","v","i","n",
                             "g"," ","i","n"," ","r","e","s","p","o","n","s","e","s">> >>),
                << <<"Q","u","a","n","t","i","f","y"," ","a","c","h","i","e","v","e","m","e","n","t","s"," ","w",
                     "i","t","h"," ","m","e","t","r","i","c","s"," ","w","h","e","n"," ","p",
                     "o","s","s","i","b","l","e">>,
                   <<"R","e","s","e","a","r","c","h"," ","t","h","e"," ","c","o","m","p","a","n","y"," ","m","o",
                     "r","e"," ","t","h","o","r","o","u","g","h","l","y"," ","b","e","f","o",
                     "r","e"," ","t","h","e"," ","i","n","t","e","r","v","i","e","w">>,
                   <<"P","r","e","p","a","r","e"," ","m","o","r","e"," ","c","o","n","c","i","s","e"," ","r","e",
                     "s","p","o","n","s","e","s"," ","t","o"," ","c","o","m","m","o","n"," ",
                     "q","u","e","s","t","i","o","n","s">>,
                   <<"P","r","a","c","t","i","c","e"," ","t","h","e"," ","S","T","A","R"," ","m","e","t","h","o",
                     "d"," ","(","S","i","t","u","a","t","i","o","n",","," ","T","a","s","k",
                     ","," ","A","c","t","i","o","n",","," ","R","e","s","u","l","t",")"," ",
                     "f","o","r"," ","b","e","h","a","v","i","o","r","a","l"," ","q","u","e",
                     "s","t","i","o","n","s">> >>)

\* no low question and the technical score alone below 75: one improvement
\* found and two generic
C18_Witness ==
    /\ NormalReport
    /\ result.overallScore = 80
    /\ result.technicalScore < 75
    /\ result.communicationScore >= 75
    /\ result.problemSolvingScore >= 75
    /\ Len(result.improvements) = 3
    /\ result.improvements[2] = genericImprovements[1]
    /\ result.improvements[3] = genericImprovements[2]

\* the job keywords of every description the calls are made with
JobKeywordsOf == [d \in Descriptions |-> extractKeywords(toLowerCase(d))]

\* a call of generateNextQuestion that returned from its try block
NextAsked == pc = "done" /\ op = "generateNextQuestion" /\ ~caught

\* the text before and the text after {keyword} in each keyword follow-up template
FollowUpFrames ==
    [t \in 1..Len(followUpTemplates) |->
        LET template == followUpTemplates[t]
            at == CHOOSE i \in 1..Len(template) :
                      SubSeq(template, i, i + Len(KeywordSlot) - 1) = KeywordSlot
        IN  <<SubSeq(template, 1, at - 1),
              SubSeq(template, at + Len(KeywordSlot), Len(template))>>]

\* question is one of the 5 keyword follow-up templates about keyword
AsksAbout(question, keyword) ==
    \E t \in 1..5 : question = FollowUpFrames[t][1] \o keyword \o FollowUpFrames[t][2]

IsGenericFollowUp(question) ==
    question \in {
      <<"C","o","u","l","d"," ","y","o","u"," ","e","l","a","b","o","r","a","t","e"," ","o","n"," ",
        "y","o","u","r"," ","l","a","s","t"," ","p","o","i","n","t","?">>,
      <<"H","o","w"," ","w","o","u","l","d"," ","y","o","u"," ","a","p","p","l","y"," ","t","h","a",
        "t"," ","e","x","p","e","r","i","e","n","c","e"," ","t","o"," ","t","h","i","s"," ","r",
        "o","l","e","?">>,
      <<"W","h","a","t"," ","s","p","e","c","i","f","i","c"," ","s","k","i","l","l","s"," ","d","i",
        "d"," ","y","o","u"," ","d","e","v","e","l","o","p"," ","f","r","o","m"," ","t","h","a",
        "t"," ","e","x","p","e","r","i","e","n","c","e","?">>,
      <<"H","o","w"," ","d","o"," ","y","o","u"," ","m","e","a","s","u","r","e"," ","s","u","c","c",
        "e","s","s"," ","i","n"," ","t","h","a","t"," ","a","r","e","a","?">>,
      <<"W","h","a","t"," ","d","i","d"," ","y","o","u"," ","l","e","a","r","n"," ","f","r","o","m",
        " ","t","h","a","t"," ","e","x","p","e","r","i","e","n","c","e"," ","t","h","a","t"," ",
        "w","o","u","l","d"," ","b","e"," ","v","a","l","u","a","b","l","e"," ","i","n"," ","t",
        "h","i","s"," ","p","o","s","i","t","i","o","n","?">> }

\* the job keywords of the call that occur in one of its previous questions
UsedKeywords ==
    LET previous == IF args.previousQuestions.tag = "array"
                    THEN args.previousQuestions.items ELSE << >>
    IN  {k \in Range(JobKeywordsOf[args.jobDescription.s]) :
            \E i \in 1..Len(previous) : includes(toLowerCase(previous[i]), k)}

\* C14: if some job keyword occurs in no lower-cased previous question, the
\* follow-up question is one of the 5 keyword templates about such a keyword,
\* and about no keyword that occurs in a previous question; if every job
\* keyword occurs in some previous question, it is one of the 5 generic
\* follow-up templates.
C14_FollowUpAboutUnusedKeyword ==
    NextAsked =>
        LET jobKeywords == Range(JobKeywordsOf[args.jobDescription.s])
            used == UsedKeywords
            unused == jobKeywords \ used
        IN  IF unused # {}
            THEN /\ \E k \in unused : AsksAbout(result.question, k)
                 /\ \A k \in used : ~AsksAbout(result.question, k)
            ELSE IsGenericFollowUp(result.question)

\* docker asked before, the other four keywords not: a question about aws
C14_Witness ==
    /\ NextAsked
    /\ args.jobDescription = Str(DescFive)
    /\ args.previousQuestions = Arr(<<DockerQuestion>>)
    /\ UsedKeywords = {<<"d","o","c","k","e","r">>}
    /\ result.question = <<"W","h","a","t"," ","c","h","a","l","l","e","n","g","e","s"," ","h","a","v","e"," ","y","o",
                           "u"," ","f","a","c","e","d"," ","w","h","e","n"," ","w","o","r","k",
                           "i","n","g"," ","w","i","t","h"," ","a","w","s","?">>

\* C15: in a session in which every question generateNextQuestion returns is
\* appended to previousQuestions before the next call, no keyword is asked
\* about in two follow-up questions, the follow-ups about keywords are at most
\* as many as the keywords, and once a follow-up is a generic template every
\* later one is.
C15_NoKeywordTwice ==
    NextAsked =>
        LET jobKeywords == Range(JobKeywordsOf[args.jobDescription.s])
            n == Len(followUps)
            about(i) == {k \in jobKeywords : AsksAbout(followUps[i], k)}
        IN  /\ \A i, j \in 1..n : i < j => about(i) \cap about(j) = {}
            /\ \A i \in 1..n : about(i) # {} \/ IsGenericFollowUp(followUps[i])
            /\ Cardinality({i \in 1..n : about(i) # {}}) <= Cardinality(jobKeywords)
            /\ \A i, j \in 1..n :
                  (i < j /\ IsGenericFollowUp(followUps[i]))
                      => IsGenericFollowUp(followUps[j])
            /\ \A i \in 2..n :
                  args.previousQuestions.items[
                      Len(args.previousQuestions.items) - n + i] = followUps[i - 1]

\* python asked at the start, then follow-ups about sql and about aws, then a
\* generic one
C15_Witness ==
    /\ NextAsked
    /\ args.jobDescription = Str(DescThree)
    /\ Len(followUps) = 3
    /\ args.previousQuestions = Arr(<<PythonQuestion, followUps[1], followUps[2]>>)
    /\ AsksAbout(followUps[1], <<"s","q","l">>)
    /\ AsksAbout(followUps[2], <<"a","w","s">>)
    /\ IsGenericFollowUp(followUps[3])
    /\ result.question = followUps[3]

\* C19: at every point of an interview, whichever of the adapter and the
\* local engine answered, every stored question score is null or an integer
\* from 0 to 100.
C19_StoredScoresInRange ==
    \A i \in 1..Len(questions) :
        questions[i].score.tag = "null" \/ questions[i].score.n \in 0..100

\* C20: when the interview is completed from the page, complete-interview
\* reads the questions after the answer the page submitted for the current
\* question is stored: the report is computed over that answer.
C20_AnswerStoredBeforeReport ==
    interview.status = "completed" =>
        reportData.items[page.index + 1].answer = Str(page.answer)

\* the text before and the text after {keyword} in the 4 positive feedbacks
PositiveFrames == <<
  << <<"T","h","a","n","k"," ","y","o","u"," ","f","o","r"," ","s","h","a","r","i","n","g"," ","y",
       "o","u","r"," ","e","x","p","e","r","i","e","n","c","e"," ","w","i","t","h"," ">>, <<"."," ","T","h","a","t","'","s"," ","v","a","l","u","a","b","l","e"," ","i","n","f","o","r",
                                                         "m","a","t","i","o","n",".">> >>,
  << <<"Y","o","u","r"," ","k","n","o","w","l","e","d","g","e"," ","o","f"," ">>, <<" ","s","h","o","w","s"," ","t","h","r","o","u","g","h"," ","i","n"," ","y","o","u","r"," ",
                                "a","n","s","w","e","r","."," ","T","h","a","t","'","s"," ","g",
                                "r","e","a","t"," ","t","o"," ","h","e","a","r",".">> >>,
  << <<"I"," ","a","p","p","r","e","c","i","a","t","e"," ","y","o","u","r"," ","d","e","t","a","i",
       "l","e","d"," ","e","x","p","l","a","n","a","t","i","o","n"," ","a","b","o","u","t"," ">>, <<".">> >>,
  << <<"Y","o","u","r"," ","e","x","p","e","r","i","e","n","c","e"," ","w","i","t","h"," ">>, <<" ","s","e","e","m","s"," ","r","e","l","e","v","a","n","t"," ","t","o"," ","t","h","i","s",
                                   " ","p","o","s","i","t","i","o","n",".">> >> >>

\* feedback is one of the 4 positive feedbacks about keyword
Praises(feedback, keyword) ==
    \E t \in 1..4 : feedback = PositiveFrames[t][1] \o keyword \o PositiveFrames[t][2]

IsAcknowledgment(feedback) ==
    feedback \in {
      <<"T","h","a","n","k"," ","y","o","u"," ","f","o","r"," ","y","o","u","r"," ","a","n","s","w",
        "e","r",".">>,
      <<"I"," ","a","p","p","r","e","c","i","a","t","e"," ","y","o","u","r"," ","r","e","s","p","o",
        "n","s","e",".">>,
      <<"T","h","a","t","'","s"," ","h","e","l","p","f","u","l"," ","i","n","f","o","r","m","a","t",
        "i","o","n",".">>,
      <<"T","h","a","n","k"," ","y","o","u"," ","f","o","r"," ","s","h","a","r","i","n","g"," ","y",
        "o","u","r"," ","p","e","r","s","p","e","c","t","i","v","e",".">> }

\* the job keywords of the call that occur in its lower-cased answer
MatchedKeywords ==
    {k \in Range(JobKeywordsOf[args.jobDescription.s]) :
        includes(toLowerCase(args.candidateAnswer.s), k)}

\* C22: the feedback generateNextQuestion returns from its try block is one
\* of the 4 positive templates about a job keyword that occurs in the
\* lower-cased answer, and about no job keyword that does not occur in it,
\* when some job keyword occurs in the answer; otherwise it is one of the 4
\* generic acknowledgments.
C22_FeedbackNamesMatchedKeyword ==
    NextAsked =>
        LET matched == MatchedKeywords
        IN  IF matched # {}
            THEN /\ \E k \in matched : Praises(result.feedback, k)
                 /\ \A k \in Range(JobKeywordsOf[args.jobDescription.s]) \ matched :
                        ~Praises(result.feedback, k)
            ELSE IsAcknowledgment(result.feedback)

\* "Docker AWS x ..." against javascript, java, docker, aws, sql: aws praised
C22_Witness ==
    /\ NextAsked
    /\ args.jobDescription = Str(DescFive)
    /\ MatchedKeywords = {<<"d","o","c","k","e","r">>, <<"a","w","s">>}
    /\ result.feedback = <<"Y","o","u","r"," ","k","n","o","w","l","e","d","g","e"," ","o","f"," ","a","w","s"," ","s",
                           "h","o","w","s"," ","t","h","r","o","u","g","h"," ","i","n"," ","y",
                           "o","u","r"," ","a","n","s","w","e","r","."," ","T","h","a","t","'",
                           "s"," ","g","r","e","a","t"," ","t","o"," ","h","e","a","r",".">>

\* text without its leading and trailing whitespace
Trimmed(text) ==
    LET inked == {i \in 1..Len(text) : ~IsSpace(text[i])}
    IN  IF inked = {} THEN << >>
        ELSE SubSeq(text, CHOOSE i \in inked : \A j \in inked : i <= j,
                          CHOOSE i \in inked : \A j \in inked : i >= j)

\* C23: an answer that has a word gets the score of the same words without
\* leading and trailing whitespace: the word count is the number of
\* whitespace-delimited words.
C23_SurroundingWhitespaceIgnored ==
    Analyzed =>
        \A i \in 1..Len(result) :
            LET answer == args.interviewData.items[i].answer.s
            IN  Trimmed(answer) # << >> =>
                    result[i].score = answerScore(Trimmed(answer), args.jobKeywords)

\* the sum the code clamps: 70, the keyword bonus and the length bonus
RawScore(answer, jobKeywords) ==
    70 + KeywordBand(Cardinality(Mentioned(answer, jobKeywords)))
       + LengthBand(splitLength(toLowerCase(answer)))

\* C28: every score analyzeAnswers returns is one of 55, 60, ..., 95, and is
\* the sum of 70, the keyword bonus and the length bonus unchanged by the clamp.
C28_ScoreInNineValues ==
    Analyzed =>
        \A i \in 1..Len(result) :
            /\ result[i].score \in {55, 60, 65, 70, 75, 80, 85, 90, 95}
            /\ result[i].score =
                   RawScore(args.interviewData.items[i].answer.s, args.jobKeywords)

\* two answers in one call: one word gives 55, four keywords in 20 words 80
C28_Witness ==
    /\ Analyzed
    /\ Len(result) = 2
    /\ result[1].score = 55
    /\ result[2].score = 80
    /\ splitLength(args.interviewData.items[2].answer.s) = 20

\* the keys of the recommendation map
MapKeys == {recommendationMap[i][1] : i \in 1..Len(recommendationMap)}

StartsWith(text, prefix) ==
    Len(text) >= Len(prefix) /\ SubSeq(text, 1, Len(prefix)) = prefix

\* C29: in a report of the try block every improvement is a key of the
\* recommendation map, there are as many recommendations as improvements, and
\* no recommendation is the templated "To address ..." sentence or one of the
\* generic recommendations.
C29_EveryImprovementMapped ==
    NormalReport =>
        /\ \A i \in 1..Len(result.improvements) : result.improvements[i] \in MapKeys
        /\ Len(result.recommendations) = Len(result.improvements)
        /\ \A i \in 1..Len(result.recommendations) :
              /\ ~StartsWith(result.recommendations[i], <<"T","o"," ","a","d","d","r","e","s","s"," ","\"">>)
              /\ result.recommendations[i] \notin Range(genericRecommendations)

\* no improvement found by rule: the first three generic improvements, and
\* the recommendations the map has for them
C29_Witness ==
    /\ NormalReport
    /\ result.improvements =
           << <<"Q","u","a","n","t","i","f","y"," ","a","c","h","i","e","v","e","m","e","n","t","s"," ","w",
                "i","t","h"," ","m","e","t","r","i","c","s"," ","w","h","e","n"," ","p","o","s",
                "s","i","b","l","e">>,
              <<"R","e","s","e","a","r","c","h"," ","t","h","e"," ","c","o","m","p","a","n","y"," ","m","o",
                "r","e"," ","t","h","o","r","o","u","g","h","l","y"," ","b","e","f","o","r","e",
                " ","t","h","e"," ","i","n","t","e","r","v","i","e","w">>,
              <<"P","r","e","p","a","r","e"," ","m","o","r","e"," ","c","o","n","c","i","s","e"," ","r","e",
                "s","p","o","n","s","e","s"," ","t","o"," ","c","o","m","m","o","n"," ","q","u",
                "e","s","t","i","o","n","s">> >>
    /\ result.recommendations[3] =
           <<"P","r","a","c","t","i","c","e"," ","l","i","m","i","t","i","n","g"," ","y","o","u","r"," ",
             "a","n","s","w","e","r","s"," ","t","o"," ","1","-","2"," ","m","i","n","u","t",
             "e","s"," ","f","o","r"," ","m","o","s","t"," ","q","u","e","s","t","i","o","n","s">>

\* the strength and the improvement of each category
CategoryStrings == <<
  << <<"D","e","m","o","n","s","t","r","a","t","e","d"," ","g","o","o","d"," ","t","e","c","h","n",
       "i","c","a","l"," ","k","n","o","w","l","e","d","g","e"," ","r","e","l","e","v","a","n",
       "t"," ","t","o"," ","t","h","e"," ","p","o","s","i","t","i","o","n">>,
     <<"H","i","g","h","l","i","g","h","t"," ","t","e","c","h","n","i","c","a","l"," ","s","k","i",
       "l","l","s"," ","m","o","r","e"," ","c","l","e","a","r","l","y"," ","i","n"," ","a","n",
       "s","w","e","r","s">> >>,
  << <<"C","o","m","m","u","n","i","c","a","t","e","d"," ","i","d","e","a","s"," ","c","l","e","a",
       "r","l","y"," ","a","n","d"," ","e","f","f","e","c","t","i","v","e","l","y">>,
     <<"S","t","r","u","c","t","u","r","e"," ","a","n","s","w","e","r","s"," ","m","o","r","e"," ",
       "c","l","e","a","r","l","y"," ","w","i","t","h"," ","a"," ","b","e","g","i","n","n","i",
       "n","g",","," ","m","i","d","d","l","e",","," ","a","n","d"," ","c","o","n","c","l","u",
       "s","i","o","n">> >>,
  << <<"S","h","o","w","e","d"," ","s","t","r","o","n","g"," ","p","r","o","b","l","e","m","-","s",
       "o","l","v","i","n","g"," ","a","b","i","l","i","t","i","e","s">>,
     <<"I","n","c","l","u","d","e"," ","m","o","r","e"," ","e","x","a","m","p","l","e","s"," ","o",
       "f"," ","p","r","o","b","l","e","m","-","s","o","l","v","i","n","g"," ","i","n"," ","r",
       "e","s","p","o","n","s","e","s">> >> >>

\* C30: in a report of the try block on non-empty interviewData, each
\* category has either its strength among the strengths or its improvement
\* among the improvements, never both and never neither, and the strengths
\* and the improvements are 3 or 4 each.
C30_OneStringPerCategory ==
    (NormalReport /\ Len(args.interviewData.items) > 0) =>
        /\ \A c \in 1..3 :
              (CategoryStrings[c][1] \in Range(result.strengths))
                  # (CategoryStrings[c][2] \in Range(result.improvements))
        /\ Len(result.strengths) \in {3, 4}
        /\ Len(result.improvements) \in {3, 4}

\* technical a strength, problem solving an improvement, in one report
C30_Witness ==
    /\ NormalReport
    /\ Len(args.interviewData.items) > 0
    /\ CategoryStrings[1][1] \in Range(result.strengths)
    /\ CategoryStrings[1][2] \notin Range(result.improvements)
    /\ CategoryStrings[3][2] \in Range(result.improvements)
    /\ CategoryStrings[3][1] \notin Range(result.strengths)

\* C21: the route that generates questions, analyses an answer or computes
\* the report calls the adapter first; the local function is called only
\* right after the adapter call threw, never after it returned, and no
\* adapter call follows a local call.
C21_AdapterFirstLocalOnFailure ==
    LET calls == served.calls
    IN  /\ served.route \in {"interviews", "next-question", "complete-interview"} =>
              /\ Len(calls) > 0
              /\ calls[1].callee = "adapter"
        /\ \A i \in 1..Len(calls) :
              /\ calls[i].callee = "local" =>
                    /\ i > 1
                    /\ calls[i - 1].callee = "adapter"
                    /\ calls[i - 1].outcome = "threw"
              /\ (calls[i].callee = "adapter" /\ calls[i].outcome = "returned") =>
                    i = Len(calls)
              /\ calls[i].callee = "local" =>
                    \A j \in (i + 1)..Len(calls) : calls[j].callee # "adapter"

\* the report computed by the local engine after the adapter threw
C21_Witness ==
    /\ served.route = "complete-interview"
    /\ Len(served.calls) = 2
    /\ served.calls[1] = [callee |-> "adapter", function |-> "generatePerformanceReport",
                          outcome |-> "threw"]
    /\ served.calls[2].callee = "local"
    /\ interview.feedback.kind = "local"

\* C24: when POST /api/interviews falls back to the local generation, as many
\* questions are stored as were requested (5 by default), the pool being
\* larger.
C24_LocalCountAsRequested ==
    (/\ served.route = "interviews"
     /\ \E i \in 1..Len(served.calls) : served.calls[i].callee = "local"
     /\ served.numQuestions <= PoolSize(RouteDescription.s)) =>
        Len(questions) = served.numQuestions

\* C26: a request changes the questions of an interview only when the
\* authenticated user who sent it owns that interview.
C26_OnlyOwnerWritesQuestions ==
    [][/\ questions' # questions => served'.user = "candidate"
       /\ other'.questions # other.questions => served'.user = "other"]_vars

\* C25: every question that has become the current question is spoken once:
\* never twice, and once unless its speech request is still awaited.
C25_EveryQuestionSpokenOnce ==
    \A id \in 1..MaxQuestions :
        (speech.loaded /\ id <= speech.index + 1) =>
            /\ speech.spoken[id] <= 1
            /\ id \notin speech.requests => speech.spoken[id] = 1

\* C27: from stop() of the user to the next start(), no recognition instance
\* is started.
C27_NoStartAfterUserStop ==
    recognition.stopped => ~recognition.startedSinceStop

====
